---- MODULE Spec2Model ----
(***************************************************************************)
(* A model of the notification orchestration layer of the Discord project  *)
(* manager bot: the merged-PR poller (services/github_poll_service.py),    *)
(* the review delivery pipeline (bot.py, webhooks/github_webhook.py) and    *)
(* the TTL cache of the query service (services/webapp_query_service.py).  *)
(*                                                                         *)
(* Each component has its own specification (SpecPoll, SpecDeliver,        *)
(* SpecCache); a specification leaves the other components' variables at   *)
(* their initial values.                                                   *)
(***************************************************************************)
EXTENDS Integers, Sequences, FiniteSets, TLC

\* ------------------------------------------------------------------------
\* Bounds of the model
\* ------------------------------------------------------------------------

\* PR numbers range over 1..MaxPr.
MaxPr == 2

\* At most MaxClosed closed PRs are returned by the upstream per repository
\* and tick.
MaxClosed == 2

\* The clock of the poller runs over 0..MaxTime (hours).
MaxTime == 1

\* WebAppQueryService.cache_ttl, a parameter of the constructor; the clock
\* of the cache runs over 0..MaxClock, in the same unit.
cache_ttl == 2

MaxClock == 3

\* The reads of the backend the history keeps.
MaxReads == 2

\* The questions the message handlers take up.
MaxQuestions == 2

\* ConversationManager.max_history ranges over 0..MaxHistory.
MaxHistory == 1

\* A user's conversation runs to 2 * max_history + MaxExtraAppends
\* messages.
MaxExtraAppends == 1

\* REPORT_HOURS lists at most MaxHours hours.
MaxHours == 2

\* ------------------------------------------------------------------------
\* Program constants
\* ------------------------------------------------------------------------

\* The hours of a day: "hours: List of hours (0-23) to run reports".
HoursPerDay == 24

\* list(closed_prs)[:10]
ScanDepth == 10

\* get_recently_merged_prs(hours=1), as the polling loop calls it
hours == 1

\* The python None.
None == "None"

Min(a, b) == IF a <= b THEN a ELSE b

\* dict.get(key, default) on a dict modelled as a function.
Get(d, k, default) == IF k \in DOMAIN d THEN d[k] ELSE default

\* d[k] = v on a dict modelled as a function.
Put(d, k, v) == [x \in (DOMAIN d) \cup {k} |-> IF x = k THEN v ELSE d[x]]

\* The empty dict.
EmptyDict == [x \in {} |-> 0]

\* ========================================================================
\* MergeWatermarkPoller: GitHubPollService
\* ========================================================================

VARIABLES
  github,          \* github_service.github is set (a token was configured)
  repos_to_watch,  \* the watch list, a python list of repository names
  last_checked,    \* dict: repo name -> number of the last PR processed
  now,             \* datetime.utcnow(), in hours
  pollPc,          \* position of get_recently_merged_prs: idle, loop, scan,
                   \* except
  cutoff_time,     \* local of the running call
  repoIdx,         \* index of the for loop over repos_to_watch
  nClosed,         \* len(list(closed_prs)[:10]) of the repository scanned
  scanned,         \* PRs of that list the inner loop has taken so far
  newly_merged,    \* local of the running call: the events collected
  pollResult,      \* history: how the last call ended (none, noclient,
                   \*          returned)
  tickStart,       \* history: last_checked as the running call found it
  scannedOk,       \* history: <<repo, number>> scanned in this call that
                   \*          were merged and inside the lookback window
  emitCount        \* history: times <<repo, number>> was emitted, up to 2

VARIABLES
  REVIEW_RECIPIENT_MODE,     \* config: specific, author, owner (or other)
  SPECIFIC_DISCORD_USER_ID,  \* config: an id, or NoneId
  FALLBACK_CHANNEL_ID,       \* config: an id, or NoneId
  mappings,        \* UserMappingService.mappings: username -> id string
  dPath,           \* the handler processing the event: poll (bot.py) or
                   \* webhook (GitHubWebhookHandler)
  dPc,             \* its position: idle, get_pr_data, review_code,
                   \* security_scan, resolve, fetch_user, user_send,
                   \* fallback, done
  pr_data,         \* local: the PR data fetched, or NoPrData
  ai_review,       \* local: the review text, or None
  security_notes,  \* local: the security notes, or None
  recipient_id,    \* local: the recipient resolved, or NoneId
  user_mention,    \* argument of the fallback call: a mention, or None
  reviewAttempted, \* history: llm_service.review_code has been called for
                   \* the event
  resolved,        \* history: recipient resolution has run for the event
  scanCalls,       \* history: calls of llm_service.security_scan for the event
  embedReview,     \* history: the review fields of the embeds handed to
                   \* user.send and channel.send for the event
  dmFailure,       \* history: the exception that ended the primary path
  fetchUserCalls,  \* history: calls of bot.fetch_user for the event
  dmSendCalls,     \* history: calls of user.send for the event
  dmSent,          \* history: calls of user.send that succeeded
  fbCalls,         \* history: calls of the fallback routine
  fbSendCalls,     \* history: calls of channel.send with the review
  fbSent,          \* history: calls of channel.send that succeeded
  fbContent,       \* history: the mention heading the fallback message
  fbOutcome,       \* history: how the fallback routine ended
  errNotifs,       \* history: error notifications sent to the channel
  dLog             \* history: error-severity log entries for the event

deliverVars == <<REVIEW_RECIPIENT_MODE, SPECIFIC_DISCORD_USER_ID,
                 FALLBACK_CHANNEL_ID, mappings, dPath, dPc, pr_data,
                 ai_review, security_notes, recipient_id, user_mention,
                 reviewAttempted, resolved, scanCalls, embedReview, dmFailure,
                 fetchUserCalls, dmSendCalls, dmSent, fbCalls, fbSendCalls,
                 fbSent, fbContent, fbOutcome, errNotifs, dLog>>

\* The delivery pipeline apart from its configuration.
dRunVars == <<dPath, dPc, pr_data, ai_review, security_notes, recipient_id,
              user_mention, reviewAttempted, resolved, scanCalls, embedReview, dmFailure,
              fetchUserCalls, dmSendCalls, dmSent, fbCalls, fbSendCalls,
              fbSent, fbContent, fbOutcome, errNotifs, dLog>>

VARIABLES
  cache,       \* dict: key -> [data, timestamp]
  clock,       \* time.time()
  pending,     \* position of analyze_question_and_fetch_data: the keys it
               \* has still to look up, in order
  watched,     \* history: the key whose lookups are recorded
  seen         \* history: the last lookup of that key (NoLookup, or when
               \*          it was made, whether it called the fetch
               \*          function, what the fetch function returned to
               \*          it, what it returned)

cacheVars == <<cache, clock, pending, watched, seen>>

VARIABLES
  max_history,    \* ConversationManager.max_history
  conversations,  \* dict: user id -> [messages, context, last_updated]
  disk_writable,  \* the history file can be written (its directory can be
                  \* made, the disk has room)
  history_file,   \* the document in the history file; None: no file
  convOp          \* history: the last call made on the manager

convVars == <<max_history, conversations, disk_writable, history_file,
              convOp>>

VARIABLES
  REPORT_HOURS,     \* config.REPORT_HOURS
  is_running,       \* ReportScheduler.is_running
  scheduler_state,  \* the state of self.scheduler: "stopped" or "running"
  jobs,             \* the job table of self.scheduler: [id, hour] records
  localHour,        \* the hour of the day in the scheduler's timezone
  inflight,         \* the ids of the jobs whose callback is under way
  lastDue,          \* history: the jobs that were due at the last full hour
  lastFired,        \* history: the jobs whose callback was started then
  failedJobs,       \* history: the ids of the jobs whose callback has raised
  scheduled,        \* history: schedule_reports has been called
  stopCalled,       \* history: stop() has been called on a running scheduler
  scheduleCalls,    \* history: the calls of schedule_reports, counted to 2
  schedCall         \* history: the step before was a call of start() or of
                    \* stop(), and the scheduler as that call found it

schedVars == <<REPORT_HOURS, is_running, scheduler_state, jobs, localHour,
               inflight, lastDue, lastFired, failedJobs, scheduled,
               stopCalled, scheduleCalls, schedCall>>

VARIABLES
  lastAsk  \* history: the last call of analyze_question_and_fetch_data made
           \* as a whole: when, with what project in the context (and in
           \* the context of the call before), and for the watched key:
           \* whether the call looked it up, whether it called the fetch
           \* function, what _get_cached returned, the bundle's entry

queryVars == <<lastAsk>>

VARIABLES
  apiPc,        \* where get_active_projects is: "idle" before the first
                \* call, "request" while an attempt is on the wire,
                \* "backoff" while the adapter sleeps before the next
                \* attempt, "returned", "raised"
  retry_total,  \* Retry.total of the call under way: the retries left
  responses,    \* history: what each attempt of the call has met
  apiResult     \* what the call returned; None if it has not returned

fetchVars == <<apiPc, retry_total, responses, apiResult>>

VARIABLES
  mapping_file,  \* the document in the user-mapping file; absent: no file
  mappingOp      \* history: the last call of add_mapping or remove_mapping,
                 \* its arguments and what it returned

tableVars == <<mapping_file, mappingOp>>

VARIABLES
  loopPc,      \* per polling task, where poll_github_for_reviews is: "none"
               \* (the task is not created), "top" (at the while test),
               \* "for" (at the for loop over merged_prs), "event"
               \* (suspended in the body, at a send), "sleep", "ended"
  merged_prs,  \* per polling task, the local merged_prs of its tick
  outcomes,    \* history, per polling task: how the body ended for each
               \* event of merged_prs taken so far in its tick
  is_closed,   \* bot.is_closed()
  takenBy      \* history: per PR of r1, the tasks whose loop took its
               \* event up, the first two of them

loopVars == <<loopPc, merged_prs, outcomes, is_closed, takenBy>>

VARIABLES
  lastRoute  \* history: the last call of analyze_question_and_fetch_data
             \* with the outcomes of all its keyword tests: the question,
             \* the project of the context, the keys it looked up, the
             \* keys whose fetch function it called, and the bundle's
             \* entry for 'tasks'

routeVars == <<lastRoute>>

VARIABLES
  reads  \* history: the calls of the read endpoints of APIService that
         \* got a 200 with a JSON body, the first MaxReads of them: the
         \* endpoint, the body and how the call ended

readVars == <<reads>>

VARIABLES
  enabled_file,         \* the list in ENABLED_PROJECTS_FILE, as a set of ids
  repPc,                \* where send_scheduled_reports is: "idle", "loop"
                        \* (at the for loop), "send" (suspended in
                        \* send_project_report's channel.send), "error_send"
                        \* (suspended sending the error embed of a project),
                        \* "info_send", "outer_send" (suspended sending the
                        \* error embed of the firing), "done"
  channel,              \* bot.get_channel(channel_id) found the channel
  projects,             \* the local projects of the firing
  enabled_project_ids,  \* the local enabled_project_ids of the firing
  enabled_projects,     \* the local enabled_projects of the firing
  repIdx,               \* the projects of enabled_projects the loop is through with
  active,               \* history: the active projects of the backend at the firing
  enabled_at_start,     \* history: the enabled set when the firing started
  attempted,            \* history: the projects send_project_report was called for
  repSent,              \* history: the messages the firing has sent
  changed,              \* history: an enable or disable command has changed
                        \* the set while the firing was suspended
  ending                \* history: how the firing came to its end, "running"
                        \* while it has not

reportVars == <<enabled_file, repPc, channel, projects, enabled_project_ids,
                enabled_projects, repIdx, active, enabled_at_start, attempted,
                repSent, changed, ending>>

VARIABLES
  chatPc,    \* per message task, where handle_conversation is: "idle" (no
             \* message), "welcome" (suspended at message.reply(welcome)),
             \* "reply" (suspended at message.reply(ai_response)),
             \* "error_reply" (suspended at message.reply(error_msg))
  chatMsg,   \* per message task, the message under way and the locals of
             \* its handler: the user, the number of the question (0 on
             \* the welcome path), what failed before the reply, and
             \* whether the data bundle holds projects
  welcomes,  \* history, per user: the welcome messages sent since the
             \* user's last reset, counted to 2
  asked      \* the questions handled so far

chatVars == <<chatPc, chatMsg, welcomes, asked>>

moreVars == <<routeVars, readVars, reportVars, chatVars>>

lateVars == <<loopVars, moreVars>>

restVars == <<convVars, schedVars, queryVars, fetchVars, tableVars, lateVars>>

notPollVars == <<deliverVars, cacheVars, restVars>>

pollVars == <<github, repos_to_watch, last_checked, now, pollPc, cutoff_time,
              repoIdx, nClosed, scanned, newly_merged, pollResult,
              tickStart, scannedOk, emitCount>>

Repos == {"r1", "r2"}

PrNumbers == 1..MaxPr

\* The pull requests the upstream may report to a call whose cutoff is c:
\* any number, merged or not, merged before, at or after the cutoff.  The
\* merged_at of an unmerged PR is never read.
PullRequests(c) ==
  [number : PrNumbers, merged : {TRUE}, merged_at : {c - 1, c, c + 1}]
    \cup [number : PrNumbers, merged : {FALSE}, merged_at : {c}]

\* The watch lists the poller may be constructed with (duplicates are not
\* excluded by the constructor).
WatchLists ==
  {<<>>} \cup {<<r>> : r \in Repos} \cup {<<r, s>> : r \in Repos, s \in Repos}

\* A window test that lets every merge through.
TooOldNever(pr, cutoff) == FALSE

\* "Skip if merged too long ago": pr.merged_at < cutoff_time
TooOld(pr, cutoff) == pr.merged_at < cutoff

\* A dedup test that lets the PR at the watermark through.
AlreadyProcessedStrict(pr, last_pr_id) == pr.number < last_pr_id

\* "Skip if we already processed this PR": pr.number <= last_pr_id
AlreadyProcessed(pr, last_pr_id) == pr.number <= last_pr_id

\* The event appended to newly_merged.  pr_author is carried by the code's
\* event as well; no consumer reads it.
Event(repo_name, pr) ==
  [repo_name |-> repo_name, pr_number |-> pr.number, merged_at |-> pr.merged_at]

\* A body of the inner loop that takes every merged PR of the window and
\* sets the watermark to its number.
ScanPrNoDedup(lc, nm, repo_name, pr, cutoff) ==
  IF ~pr.merged \/ TooOld(pr, cutoff)
  THEN [last_checked |-> lc, newly_merged |-> nm]
  ELSE [last_checked |-> Put(lc, repo_name, pr.number),
        newly_merged |-> Append(nm, Event(repo_name, pr))]

\* One pass of the inner loop's body over pr: the dict and the list after it.
ScanPr(lc, nm, repo_name, pr, cutoff) ==
  LET last_pr_id == Get(lc, repo_name, 0) IN
  IF ~pr.merged THEN [last_checked |-> lc, newly_merged |-> nm]
  ELSE IF TooOld(pr, cutoff) THEN [last_checked |-> lc, newly_merged |-> nm]
  ELSE IF AlreadyProcessed(pr, last_pr_id)
  THEN [last_checked |-> lc, newly_merged |-> nm]
  ELSE [last_checked |->
          IF pr.number > last_pr_id
          THEN Put(lc, repo_name, pr.number) ELSE lc,
        newly_merged |-> Append(nm, Event(repo_name, pr))]

PollInit ==
  /\ github \in BOOLEAN
  /\ repos_to_watch \in WatchLists
  /\ last_checked = EmptyDict
  /\ now = 0
  /\ pollPc = "idle"
  /\ cutoff_time = 0
  /\ repoIdx = 0
  /\ nClosed = 0
  /\ scanned = 0
  /\ newly_merged = <<>>
  /\ pollResult = "none"
  /\ tickStart = EmptyDict
  /\ scannedOk = {}
  /\ emitCount = [p \in Repos \X PrNumbers |-> 0]

\* The poller as the other specifications hold it: constructed with a client
\* and one repository to watch, no call made.
PollAtRest ==
  /\ PollInit
  /\ github = TRUE
  /\ repos_to_watch = <<"r1">>

\* Time passes between two calls.
ClockTick ==
  /\ pollPc = "idle"
  /\ now < MaxTime
  /\ now' = now + 1
  /\ UNCHANGED <<github, repos_to_watch, last_checked, pollPc, cutoff_time,
                 repoIdx, nClosed, scanned, newly_merged, pollResult,
                 tickStart, scannedOk, emitCount>>
  /\ UNCHANGED notPollVars

\* A call that goes into the loop over the watch list without a client.
PollNoClientPolls ==
  /\ pollPc = "idle"
  /\ ~github
  /\ pollPc' = "loop"
  /\ newly_merged' = <<>>
  /\ cutoff_time' = now - hours
  /\ repoIdx' = 1
  /\ tickStart' = last_checked
  /\ scannedOk' = {}
  /\ UNCHANGED <<github, repos_to_watch, last_checked, now, nClosed, scanned,
                 pollResult, emitCount>>
  /\ UNCHANGED notPollVars

\* get_recently_merged_prs without a GitHub client: returns [].
PollNoClient ==
  /\ pollPc = "idle"
  /\ ~github
  /\ pollResult' = "noclient"
  /\ UNCHANGED <<github, repos_to_watch, last_checked, now, pollPc,
                 cutoff_time, repoIdx, nClosed, scanned, newly_merged,
                 tickStart, scannedOk, emitCount>>
  /\ UNCHANGED notPollVars

\* get_recently_merged_prs up to the for loop over the watch list.
PollBegin ==
  /\ pollPc = "idle"
  /\ github
  /\ pollPc' = "loop"
  /\ newly_merged' = <<>>
  /\ cutoff_time' = now - hours
  /\ repoIdx' = 1
  /\ tickStart' = last_checked
  /\ scannedOk' = {}
  /\ UNCHANGED <<github, repos_to_watch, last_checked, now, nClosed, scanned,
                 pollResult, emitCount>>
  /\ UNCHANGED notPollVars

\* get_repo, get_pulls and list(closed_prs)[:10] succeed for the next
\* repository: n closed PRs are to be scanned.
PollFetchRepo ==
  /\ pollPc = "loop"
  /\ repoIdx <= Len(repos_to_watch)
  /\ \E n \in 1..Min(MaxClosed, ScanDepth) :
       /\ nClosed' = n
       /\ scanned' = 0
       /\ pollPc' = "scan"
  /\ UNCHANGED <<github, repos_to_watch, last_checked, now, cutoff_time,
                 repoIdx, newly_merged, pollResult, tickStart, scannedOk,
                 emitCount>>
  /\ UNCHANGED notPollVars

\* The repository has no closed PR: the inner loop has nothing to do.
PollFetchEmpty ==
  /\ pollPc = "loop"
  /\ repoIdx <= Len(repos_to_watch)
  /\ repoIdx' = repoIdx + 1
  /\ UNCHANGED <<github, repos_to_watch, last_checked, now, pollPc,
                 cutoff_time, nClosed, scanned, newly_merged, pollResult,
                 tickStart, scannedOk, emitCount>>
  /\ UNCHANGED notPollVars

\* An exception while fetching the repository or while scanning its PRs:
\* control passes to the except block of the loop's body; what the call has
\* collected and recorded so far stays.
PollRepoFail ==
  /\ \/ pollPc = "loop" /\ repoIdx <= Len(repos_to_watch)
     \/ pollPc = "scan" /\ scanned < nClosed
  /\ pollPc' = "except"
  /\ nClosed' = 0
  /\ scanned' = 0
  /\ UNCHANGED <<github, repos_to_watch, last_checked, now, cutoff_time,
                 repoIdx, newly_merged, pollResult, tickStart, scannedOk,
                 emitCount>>
  /\ UNCHANGED notPollVars

\* An except block that gives the call up: the loop is left and the
\* repositories after the one that failed are not polled.
PollRepoAbort ==
  /\ pollPc = "except"
  /\ pollPc' = "loop"
  /\ repoIdx' = Len(repos_to_watch) + 1
  /\ UNCHANGED <<github, repos_to_watch, last_checked, now, cutoff_time,
                 nClosed, scanned, newly_merged, pollResult, tickStart,
                 scannedOk, emitCount>>
  /\ UNCHANGED notPollVars

\* The except block: the failure is logged and `continue` takes the loop to
\* the next repository of the watch list.
PollRepoContinue ==
  /\ pollPc = "except"
  /\ pollPc' = "loop"
  /\ repoIdx' = repoIdx + 1
  /\ UNCHANGED <<github, repos_to_watch, last_checked, now, cutoff_time,
                 nClosed, scanned, newly_merged, pollResult, tickStart,
                 scannedOk, emitCount>>
  /\ UNCHANGED notPollVars

\* One pass of the inner loop over the next PR of the list, whatever PR the
\* upstream put there; after the last PR of the list the outer loop goes on
\* to the next repository.
PollScanPr ==
  /\ pollPc = "scan"
  /\ scanned < nClosed
  /\ \E pr \in PullRequests(cutoff_time) :
       LET repo_name == repos_to_watch[repoIdx]
           after == ScanPr(last_checked, newly_merged, repo_name, pr,
                           cutoff_time)
           emits == Len(after.newly_merged) > Len(newly_merged)
       IN /\ last_checked' = after.last_checked
          /\ newly_merged' = after.newly_merged
          /\ scannedOk' =
               IF pr.merged /\ pr.merged_at >= cutoff_time
               THEN scannedOk \cup {<<repo_name, pr.number>>}
               ELSE scannedOk
          /\ emitCount' =
               IF emits
               THEN [emitCount EXCEPT ![<<repo_name, pr.number>>] =
                       Min(@ + 1, 2)]
               ELSE emitCount
  /\ IF scanned + 1 < nClosed
     THEN /\ scanned' = scanned + 1
          /\ UNCHANGED <<pollPc, repoIdx, nClosed>>
     ELSE /\ pollPc' = "loop"
          /\ repoIdx' = repoIdx + 1
          /\ nClosed' = 0
          /\ scanned' = 0
  /\ UNCHANGED <<github, repos_to_watch, now, cutoff_time, pollResult,
                 tickStart>>
  /\ UNCHANGED notPollVars

\* The outer loop is through the watch list: the call is about to return
\* newly_merged.
PollAtReturn == pollPc = "loop" /\ repoIdx > Len(repos_to_watch)

\* return newly_merged: the caller takes the list, the call's locals (and
\* the history kept of the call) are gone.
PollReturn ==
  /\ PollAtReturn
  /\ pollPc' = "idle"
  /\ pollResult' = "returned"
  /\ newly_merged' = <<>>
  /\ cutoff_time' = 0
  /\ repoIdx' = 0
  /\ tickStart' = EmptyDict
  /\ scannedOk' = {}
  /\ UNCHANGED <<github, repos_to_watch, last_checked, now, nClosed, scanned,
                 emitCount>>
  /\ UNCHANGED notPollVars

\* add_repo_to_watch
AddRepoToWatch ==
  /\ pollPc = "idle"
  /\ \E repo_name \in Repos :
       /\ \A i \in 1..Len(repos_to_watch) : repos_to_watch[i] # repo_name
       /\ repos_to_watch' = Append(repos_to_watch, repo_name)
  /\ UNCHANGED <<github, last_checked, now, pollPc, cutoff_time, repoIdx,
                 nClosed, scanned, newly_merged, pollResult, tickStart,
                 scannedOk, emitCount>>
  /\ UNCHANGED notPollVars

\* list.remove: the list without the first occurrence of x.
RECURSIVE ListRemove(_, _)
ListRemove(l, x) ==
  IF l = <<>> THEN <<>>
  ELSE IF Head(l) = x THEN Tail(l)
  ELSE <<Head(l)>> \o ListRemove(Tail(l), x)

\* remove_repo_from_watch
RemoveRepoFromWatch ==
  /\ pollPc = "idle"
  /\ \E repo_name \in Repos :
       /\ \E i \in 1..Len(repos_to_watch) : repos_to_watch[i] = repo_name
       /\ repos_to_watch' = ListRemove(repos_to_watch, repo_name)
  /\ UNCHANGED <<github, last_checked, now, pollPc, cutoff_time, repoIdx,
                 nClosed, scanned, newly_merged, pollResult, tickStart,
                 scannedOk, emitCount>>
  /\ UNCHANGED notPollVars

NextPoll ==
  \/ ClockTick
  \/ PollNoClient
  \/ PollBegin
  \/ PollFetchRepo
  \/ PollFetchEmpty
  \/ PollRepoFail
  \/ PollRepoContinue
  \/ PollScanPr
  \/ PollReturn
  \/ AddRepoToWatch
  \/ RemoveRepoFromWatch

\* ========================================================================
\* PollingLoop: the tasks on_ready creates for poll_github_for_reviews
\* ========================================================================

\* The polling tasks: on_ready creates one each time it runs, and it runs
\* again after a reconnect.
LoopTasks == {1, 2}

\* The merged pull requests of the lookback window the upstream may list
\* for a repository; the others are skipped by the scan.
MergedInWindow(c) == [number : PrNumbers, merged : {TRUE}, merged_at : {c}]

\* list(closed_prs)[:10] for a tick whose cutoff is c: pull requests with
\* different numbers, in the order the upstream sorts them.
Listings(c) ==
  {l \in UNION {[1..n -> MergedInWindow(c)] : n \in 0..MaxClosed} :
     \A i \in DOMAIN l, j \in DOMAIN l : i # j => l[i].number # l[j].number}

\* What the upstream answers for a repository: a listing, or the request
\* raises.
Answers(c) ==
  {[failed |-> FALSE, prs |-> l] : l \in Listings(c)}
    \cup {[failed |-> TRUE, prs |-> <<>>]}

RECURSIVE Listed(_)
Listed(answers) ==
  IF answers = <<>> THEN 0 ELSE Len(Head(answers).prs) + Listed(Tail(answers))

\* What the upstream answers in one tick for the n repositories of the
\* watch list, at most MaxClosed closed PRs listed in all.
TickAnswers(n, c) == {a \in [1..n -> Answers(c)] : Listed(a) <= MaxClosed}

\* The inner loop of get_recently_merged_prs over a listing.
RECURSIVE ScanListing(_, _, _, _, _)
ScanListing(lc, nm, repo_name, listing, cutoff) ==
  IF listing = <<>> THEN [last_checked |-> lc, newly_merged |-> nm]
  ELSE LET after == ScanPr(lc, nm, repo_name, Head(listing), cutoff)
       IN ScanListing(after.last_checked, after.newly_merged, repo_name,
                      Tail(listing), cutoff)

\* get_recently_merged_prs as one call, which it is for the event loop (the
\* method is not a coroutine): the outer loop over the watch list, the
\* upstream answering answers[i] for the i-th repository.
RECURSIVE GetRecentlyMergedPrs(_, _, _, _, _)
GetRecentlyMergedPrs(lc, nm, watch, answers, cutoff) ==
  IF watch = <<>> THEN [last_checked |-> lc, newly_merged |-> nm]
  ELSE LET after == IF Head(answers).failed
                    THEN [last_checked |-> lc, newly_merged |-> nm]
                    ELSE ScanListing(lc, nm, Head(watch), Head(answers).prs, cutoff)
       IN GetRecentlyMergedPrs(after.last_checked, after.newly_merged,
                               Tail(watch), Tail(answers), cutoff)

\* How the body of the for loop can end for an event: get_pr_data returned
\* None (continue), the body ran to its end, or an exception reached the
\* except block of the body.
BodyOutcomes == {"no_pr_data", "ok", "failed"}

\* What is recorded of the events of a tick: how many the body is through
\* with, and the first of them it failed for (0: none).
NoOutcomes == [taken |-> 0, first_failed |-> 0]

WithOutcome(o, outcome) ==
  [taken |-> o.taken + 1,
   first_failed |-> IF outcome = "failed" /\ o.first_failed = 0
                    THEN o.taken + 1 ELSE o.first_failed]

\* A loop that an exception in the body of one event throws out of the for
\* loop, to the except block of the tick.
AfterEventAbortsTick(outcome, taken, n) ==
  IF outcome = "failed" \/ taken >= n THEN "sleep" ELSE "for"

\* Where the loop is after the body has ended for an event, taken events
\* of the n of merged_prs being through: at the next event, or past the
\* for loop at asyncio.sleep.
AfterEvent(outcome, taken, n) == IF taken >= n THEN "sleep" ELSE "for"

\* No polling task created, the client open.
LoopAtRest ==
  /\ loopPc = [t \in LoopTasks |-> "none"]
  /\ merged_prs = [t \in LoopTasks |-> <<>>]
  /\ outcomes = [t \in LoopTasks |-> NoOutcomes]
  /\ is_closed = FALSE
  /\ takenBy = [k \in Repos \X PrNumbers |-> <<>>]

\* on_ready: with a token and a watch list configured a polling task is
\* created; it waits for wait_until_ready and comes to the while test.
OnReady ==
  /\ github
  /\ repos_to_watch # <<>>
  /\ ~is_closed
  /\ \E t \in LoopTasks :
       /\ loopPc[t] = "none"
       /\ \A u \in LoopTasks : u < t => loopPc[u] # "none"
       /\ loopPc' = [loopPc EXCEPT ![t] = "top"]
  /\ UNCHANGED <<merged_prs, outcomes, is_closed, takenBy, pollVars, deliverVars,
                 cacheVars, convVars, schedVars, queryVars, fetchVars, tableVars, moreVars>>

\* The client is closed.
Close ==
  /\ ~is_closed
  /\ is_closed' = TRUE
  /\ UNCHANGED <<loopPc, merged_prs, outcomes, takenBy, pollVars, deliverVars,
                 cacheVars, convVars, schedVars, queryVars, fetchVars, tableVars, moreVars>>

\* "while not bot.is_closed()" is false: the coroutine returns.
LoopExit(t) ==
  /\ loopPc[t] = "top"
  /\ is_closed
  /\ loopPc' = [loopPc EXCEPT ![t] = "ended"]
  /\ UNCHANGED <<merged_prs, outcomes, is_closed, takenBy, pollVars, deliverVars,
                 cacheVars, convVars, schedVars, queryVars, fetchVars, tableVars, moreVars>>

\* A tick: the while test passes and get_recently_merged_prs is called; it
\* reads and writes the watermarks and returns merged_prs. With nothing
\* returned the loop goes to asyncio.sleep.
LoopTick(t) ==
  /\ loopPc[t] = "top"
  /\ ~is_closed
  /\ \E answers \in TickAnswers(Len(repos_to_watch), now - hours) :
       \E r \in {GetRecentlyMergedPrs(last_checked, <<>>, repos_to_watch,
                                      answers, now - hours)} :
         /\ last_checked' = r.last_checked
         /\ merged_prs' = [merged_prs EXCEPT ![t] = r.newly_merged]
         /\ loopPc' = [loopPc EXCEPT ![t] = IF r.newly_merged = <<>> THEN "sleep" ELSE "for"]
  /\ outcomes' = [outcomes EXCEPT ![t] = NoOutcomes]
  /\ UNCHANGED <<is_closed, takenBy, github, repos_to_watch, now, pollPc, cutoff_time,
                 repoIdx, nClosed, scanned, newly_merged, pollResult, tickStart,
                 scannedOk, emitCount, deliverVars, cacheVars, convVars, schedVars,
                 queryVars, fetchVars, tableVars, moreVars>>

\* A tick that ends in an exception outside the body of an event: the
\* except block of the tick logs it and the loop goes to asyncio.sleep.
LoopTickRaises(t) ==
  /\ loopPc[t] = "top"
  /\ ~is_closed
  /\ loopPc' = [loopPc EXCEPT ![t] = "sleep"]
  /\ merged_prs' = [merged_prs EXCEPT ![t] = <<>>]
  /\ outcomes' = [outcomes EXCEPT ![t] = NoOutcomes]
  /\ UNCHANGED <<is_closed, takenBy, pollVars, deliverVars, cacheVars, convVars,
                 schedVars, queryVars, fetchVars, tableVars, moreVars>>

\* The event the for loop of task t is at.
EventAt(t) == merged_prs[t][outcomes[t].taken + 1]

\* The for loop takes the next event of merged_prs. The body runs without
\* suspension up to its first send: get_pr_data returns None and the body
\* continues with the next event, or an exception reaches the except block
\* of the body, or the body is suspended at a send.
EventBegin(t) ==
  /\ loopPc[t] = "for"
  /\ takenBy' = [takenBy EXCEPT ![<<EventAt(t).repo_name, EventAt(t).pr_number>>] =
                   IF Len(@) < 2 THEN Append(@, t) ELSE @]
  /\ \/ /\ loopPc' = [loopPc EXCEPT ![t] = "event"]
        /\ UNCHANGED outcomes
     \/ \E outcome \in {"no_pr_data", "failed"} :
          /\ outcomes' = [outcomes EXCEPT ![t] = WithOutcome(@, outcome)]
          /\ loopPc' = [loopPc EXCEPT ![t] =
                          AfterEvent(outcome, outcomes'[t].taken, Len(merged_prs[t]))]
  /\ UNCHANGED <<merged_prs, is_closed, pollVars, deliverVars, cacheVars, convVars,
                 schedVars, queryVars, fetchVars, tableVars, moreVars>>

\* The send the body was suspended at is over: the body ends, or an
\* exception reaches the except block of the body, which logs it.
EventEnd(t) ==
  /\ loopPc[t] = "event"
  /\ \E outcome \in {"ok", "failed"} :
       /\ outcomes' = [outcomes EXCEPT ![t] = WithOutcome(@, outcome)]
       /\ loopPc' = [loopPc EXCEPT ![t] =
                       AfterEvent(outcome, outcomes'[t].taken, Len(merged_prs[t]))]
  /\ UNCHANGED <<merged_prs, is_closed, takenBy, pollVars, deliverVars, cacheVars,
                 convVars, schedVars, queryVars, fetchVars, tableVars, moreVars>>

\* asyncio.sleep(CODE_REVIEW_CHECK_INTERVAL) is over: back to the while
\* test.
SleepOver(t) ==
  /\ loopPc[t] = "sleep"
  /\ loopPc' = [loopPc EXCEPT ![t] = "top"]
  /\ UNCHANGED <<merged_prs, outcomes, is_closed, takenBy, pollVars, deliverVars,
                 cacheVars, convVars, schedVars, queryVars, fetchVars, tableVars, moreVars>>

NextLoop ==
  \/ OnReady
  \/ Close
  \/ \E t \in LoopTasks : LoopExit(t)
  \/ \E t \in LoopTasks : LoopTick(t)
  \/ \E t \in LoopTasks : LoopTickRaises(t)
  \/ \E t \in LoopTasks : EventBegin(t)
  \/ \E t \in LoopTasks : EventEnd(t)
  \/ \E t \in LoopTasks : SleepOver(t)

\* ========================================================================
\* ScheduledReports: send_scheduled_reports, enable_reports, disable_reports
\* ========================================================================

ProjectIds == {"p1", "p2"}

\* The backend's list of active projects, in its order.
ProjectList(ids) == SelectSeq(<<"p1", "p2">>, LAMBDA id : id \in ids)

\* A loop that filters the projects by the file as it is now.
LoopProjectsRefiltered(filtered, fetched, file) ==
  SelectSeq(fetched, LAMBDA id : id \in file)

\* The list the for loop of the firing runs over: enabled_projects, built
\* before the loop from the projects fetched and the ids read.
LoopProjects(filtered, fetched, file) == filtered

\* No firing so far, no project enabled (the file is created empty).
ReportAtRest ==
  /\ enabled_file = {}
  /\ repPc = "idle"
  /\ channel = TRUE
  /\ projects = <<>>
  /\ enabled_project_ids = {}
  /\ enabled_projects = <<>>
  /\ repIdx = 0
  /\ active = {}
  /\ enabled_at_start = {}
  /\ attempted = {}
  /\ repSent = 0
  /\ changed = FALSE
  /\ ending = "running"

\* The firing is suspended at a send.
Suspended == repPc \in {"send", "error_send", "info_send", "outer_send"}

\* enable_reports for a project the backend lists: the id is appended to
\* the list loaded and the list is saved, with no suspension in between.
EnableReports ==
  /\ repPc # "loop"
  /\ \E id \in ProjectIds :
       /\ id \notin enabled_file
       /\ enabled_file' = enabled_file \cup {id}
  /\ changed' = (changed \/ Suspended)
  /\ UNCHANGED <<repPc, channel, projects, enabled_project_ids, enabled_projects,
                 repIdx, active, enabled_at_start, attempted, repSent, ending, pollVars,
                 deliverVars, cacheVars, convVars, schedVars, queryVars, fetchVars,
                 tableVars, loopVars, routeVars, readVars, chatVars>>

\* disable_reports for a project the backend lists.
DisableReports ==
  /\ repPc # "loop"
  /\ \E id \in ProjectIds :
       /\ id \in enabled_file
       /\ enabled_file' = enabled_file \ {id}
  /\ changed' = (changed \/ Suspended)
  /\ UNCHANGED <<repPc, channel, projects, enabled_project_ids, enabled_projects,
                 repIdx, active, enabled_at_start, attempted, repSent, ending, pollVars,
                 deliverVars, cacheVars, convVars, schedVars, queryVars, fetchVars,
                 tableVars, loopVars, routeVars, readVars, chatVars>>

\* A firing of the job: send_scheduled_reports up to its first suspension.
\* Without a channel it returns; it reads the enabled ids and returns if
\* there are none; it fetches the projects (the fetch may raise, which
\* leads to the error embed of the firing); without projects it sends the
\* info embed; it filters the projects and comes to the for loop.
Fire ==
  /\ repPc \in {"idle", "done"}
  /\ \E found \in BOOLEAN, listed \in SUBSET ProjectIds, fetch_ok \in BOOLEAN :
       /\ channel' = found
       /\ active' = listed
       /\ enabled_project_ids' = IF found THEN enabled_file ELSE {}
       /\ projects' = IF found /\ enabled_file # {} /\ fetch_ok
                      THEN ProjectList(listed) ELSE <<>>
       /\ enabled_projects' = SelectSeq(projects', LAMBDA id : id \in enabled_project_ids')
       /\ repPc' = CASE ~found -> "done"
                     [] enabled_file = {} -> "done"
                     [] ~fetch_ok -> "outer_send"
                     [] projects' = <<>> -> "info_send"
                     [] enabled_projects' = <<>> -> "done"
                     [] OTHER -> "loop"
       /\ ending' = CASE ~found -> "no_channel"
                      [] enabled_file = {} -> "nothing_enabled"
                      [] ~fetch_ok -> "fetch_failed"
                      [] projects' = <<>> -> "no_projects"
                      [] enabled_projects' = <<>> -> "none_listed"
                      [] OTHER -> "running"
  /\ enabled_at_start' = enabled_file
  /\ repIdx' = 0
  /\ attempted' = {}
  /\ repSent' = 0
  /\ changed' = FALSE
  /\ UNCHANGED <<enabled_file, pollVars, deliverVars, cacheVars, convVars, schedVars,
                 queryVars, fetchVars, tableVars, loopVars, routeVars, readVars, chatVars>>

\* Where the firing is after the body of the for loop is through for one
\* more project.
AfterProject(idx, list) == IF idx >= Len(list) THEN "done" ELSE "loop"

\* The for loop calls send_project_report for the next project: a fetch
\* of its data raises, which leads to the error embed of the project, or
\* the report is built and the routine is suspended at channel.send.
ReportBegin ==
  /\ repPc = "loop"
  /\ attempted' = attempted \cup
       {LoopProjects(enabled_projects, projects, enabled_file)[repIdx + 1]}
  /\ repPc' \in {"send", "error_send"}
  /\ UNCHANGED <<enabled_file, channel, projects, enabled_project_ids, enabled_projects,
                 repIdx, active, enabled_at_start, repSent, changed, ending, pollVars,
                 deliverVars, cacheVars, convVars, schedVars, queryVars, fetchVars,
                 tableVars, loopVars, routeVars, readVars, chatVars>>

\* channel.send of the report is over: sent, or it raised, which leads to
\* the error embed of the project.
ReportSendOver ==
  /\ repPc = "send"
  /\ \/ /\ repSent' = repSent + 1
        /\ repIdx' = repIdx + 1
        /\ repPc' = AfterProject(repIdx', LoopProjects(enabled_projects, projects, enabled_file))
        /\ ending' = IF repPc' = "done" THEN "completed" ELSE ending
     \/ /\ repPc' = "error_send"
        /\ UNCHANGED <<repSent, repIdx, ending>>
  /\ UNCHANGED <<enabled_file, channel, projects, enabled_project_ids, enabled_projects,
                 active, enabled_at_start, attempted, changed, pollVars,
                 deliverVars, cacheVars, convVars, schedVars, queryVars, fetchVars,
                 tableVars, loopVars, routeVars, readVars, chatVars>>

\* channel.send of the error embed of a project is over: sent, and the
\* loop goes on; or it raised inside the except block, which throws the
\* firing out of the for loop to its own except block.
ErrorSendOver ==
  /\ repPc = "error_send"
  /\ \/ /\ repSent' = repSent + 1
        /\ repIdx' = repIdx + 1
        /\ repPc' = AfterProject(repIdx', LoopProjects(enabled_projects, projects, enabled_file))
        /\ ending' = IF repPc' = "done" THEN "completed" ELSE ending
     \/ /\ repPc' = "outer_send"
        /\ ending' = "aborted"
        /\ UNCHANGED <<repSent, repIdx>>
  /\ UNCHANGED <<enabled_file, channel, projects, enabled_project_ids, enabled_projects,
                 active, enabled_at_start, attempted, changed, pollVars,
                 deliverVars, cacheVars, convVars, schedVars, queryVars, fetchVars,
                 tableVars, loopVars, routeVars, readVars, chatVars>>

\* channel.send of the info embed ("No active projects found.") is over.
InfoSendOver ==
  /\ repPc = "info_send"
  /\ \/ /\ repSent' = repSent + 1
        /\ repPc' = "done"
     \/ /\ repPc' = "outer_send"
        /\ UNCHANGED repSent
  /\ UNCHANGED <<enabled_file, channel, projects, enabled_project_ids, enabled_projects,
                 repIdx, active, enabled_at_start, attempted, changed, ending, pollVars,
                 deliverVars, cacheVars, convVars, schedVars, queryVars, fetchVars,
                 tableVars, loopVars, routeVars, readVars, chatVars>>

\* channel.send of the error embed of the firing is over: sent, or it
\* raised and the callback ends in that exception.
OuterSendOver ==
  /\ repPc = "outer_send"
  /\ repSent' \in {repSent, repSent + 1}
  /\ repPc' = "done"
  /\ UNCHANGED <<enabled_file, channel, projects, enabled_project_ids, enabled_projects,
                 repIdx, active, enabled_at_start, attempted, changed, ending, pollVars,
                 deliverVars, cacheVars, convVars, schedVars, queryVars, fetchVars,
                 tableVars, loopVars, routeVars, readVars, chatVars>>

NextReport ==
  \/ EnableReports
  \/ DisableReports
  \/ Fire
  \/ ReportBegin
  \/ ReportSendOver
  \/ ErrorSendOver
  \/ InfoSendOver
  \/ OuterSendOver

\* ========================================================================
\* DeliveryRouter: poll_github_for_reviews, send_code_review_dm and
\* send_review_to_fallback of bot.py; GitHubWebhookHandler
\* ========================================================================

\* The None of an Optional[int]: discord ids are not negative.
NoneId == -1

\* The GitHub user names of authors and repository owners.
Users == {"alice", "bob"}

\* The id strings the mapping file may hold.
IdStrings == {"100", "0", "x1", ""}

\* int(s) for the id strings that are decimal numbers; the others raise
\* ValueError.
IntOf == ("100" :> 100) @@ ("0" :> 0)

\* The mapping tables the service may load from its file.
MappingTables == UNION {[S -> IdStrings] : S \in SUBSET Users}

\* What get_pr_data returns for a PR it cannot fetch.
NoPrData == [author |-> None, repo_owner |-> None]

\* The GitHub user names an event may carry: those the mapping file may
\* hold, and one of them spelt with a capital letter.
EventUsers == Users \cup {"Alice"}

\* What get_pr_data returns otherwise (the fields the pipeline reads).
PrDatas == [author : EventUsers, repo_owner : EventUsers]

\* Python truth of an Optional[int].
Truthy(id) == id # NoneId /\ id # 0

\* user.mention
UserMention(id) == "<@" \o ToString(id) \o ">"

\* UserMappingService.get_discord_id
GetDiscordId(mp, github_username) ==
  LET discord_id_str == Get(mp, github_username, None) IN
  IF discord_id_str \in {None, ""} THEN NoneId
  ELSE IF discord_id_str \in DOMAIN IntOf THEN IntOf[discord_id_str]
  ELSE NoneId

\* A resolution that looks the repository owner up under the mode author.
DetermineReviewRecipientByOwner(pd) ==
  IF REVIEW_RECIPIENT_MODE = "specific" /\ Truthy(SPECIFIC_DISCORD_USER_ID)
  THEN SPECIFIC_DISCORD_USER_ID
  ELSE IF REVIEW_RECIPIENT_MODE \in {"author", "owner"}
  THEN GetDiscordId(mappings, pd.repo_owner)
  ELSE NoneId

\* determine_review_recipient
DetermineReviewRecipient(pd) ==
  IF REVIEW_RECIPIENT_MODE = "specific" /\ Truthy(SPECIFIC_DISCORD_USER_ID)
  THEN SPECIFIC_DISCORD_USER_ID
  ELSE IF REVIEW_RECIPIENT_MODE = "author"
  THEN GetDiscordId(mappings, pd.author)
  ELSE IF REVIEW_RECIPIENT_MODE = "owner"
  THEN GetDiscordId(mappings, pd.repo_owner)
  ELSE NoneId

\* GitHubWebhookHandler._determine_recipient
WebhookDetermineRecipient(pd) ==
  IF REVIEW_RECIPIENT_MODE = "specific" /\ Truthy(SPECIFIC_DISCORD_USER_ID)
  THEN SPECIFIC_DISCORD_USER_ID
  ELSE IF REVIEW_RECIPIENT_MODE = "author"
  THEN GetDiscordId(mappings, pd.author)
  ELSE IF REVIEW_RECIPIENT_MODE = "owner"
  THEN GetDiscordId(mappings, pd.repo_owner)
  ELSE NoneId

\* A dispatch that takes the primary path whatever was resolved.
AfterResolveAlwaysDm(id) == "fetch_user"

\* "if recipient_id: send_code_review_dm(...) else: send_review_to_fallback"
\* (bot.py), "if not recipient_user_id: _send_to_fallback_channel; return"
\* (webhook): where the handler goes after resolution.
AfterResolve(id) == IF Truthy(id) THEN "fetch_user" ELSE "fallback"

\* A handler that swallows a failed user lookup.
AfterFetchUserSwallow(outcome) ==
  IF outcome = "ok" THEN "user_send" ELSE "done"

\* Where send_code_review_dm / _send_review_dm goes after bot.fetch_user.
AfterFetchUser(outcome) == IF outcome = "ok" THEN "user_send" ELSE "fallback"

\* A handler that posts to the fallback channel after a DM that succeeded.
AfterUserSendAlwaysFallback(outcome) == "fallback"

\* Where send_code_review_dm / _send_review_dm goes after user.send.
AfterUserSend(outcome) == IF outcome = "ok" THEN "done" ELSE "fallback"

\* A handler that never passes the mention on.
FailureMentionNever(stage, failure, user_id) == None

\* The user_mention send_code_review_dm passes to the fallback routine:
\* user.mention in the handler of discord.Forbidden around user.send, none
\* in the handler of every other exception.
FailureMention(stage, failure, user_id) ==
  IF stage = "user_send" /\ failure = "Forbidden"
  THEN UserMention(user_id) ELSE None

\* The user_mention _send_review_dm passes: user.mention in the handler of
\* discord.Forbidden, none in those of discord.HTTPException,
\* discord.NotFound and Exception.
WebhookFailureMention(stage, failure, user_id) ==
  IF stage = "user_send" /\ failure = "Forbidden"
  THEN UserMention(user_id) ELSE None

\* mention = user_mention if user_mention else f"@{github_username}"
FallbackMention(um, github_username) ==
  IF um \notin {None, ""} THEN um ELSE "@" \o github_username

\* A handler that drops the event when the review could not be generated.
AfterReviewDrops(r) == IF r # None THEN "security_scan" ELSE "done"

\* "security_notes = None; if ai_review: security_notes = security_scan":
\* where the handler goes after review_code.
AfterReview(r) == IF r # None THEN "security_scan" ELSE "resolve"

\* The value create_review_embed gives the field "AI Code Review" when
\* there is no review.
ReviewFailed == "Review generation failed"

\* create_review_embed (create_fallback_embed calls it): the review field,
\* the review or the placeholder.
ReviewField(review) == IF review # None THEN review ELSE ReviewFailed

\* A loop that goes from the PR data straight to recipient resolution.
AfterPrDataSkipsReview == "resolve"

\* With the PR data fetched the loop goes on to llm_service.review_code.
AfterPrData == "review_code"

\* A counter of the history, kept up to 2.
Inc(n) == Min(n + 1, 2)

\* The per-event part of the state before an event is taken up.
EventReset ==
  /\ pr_data' = NoPrData
  /\ ai_review' = None
  /\ security_notes' = None
  /\ recipient_id' = NoneId
  /\ user_mention' = None
  /\ reviewAttempted' = FALSE
  /\ resolved' = FALSE
  /\ scanCalls' = 0
  /\ embedReview' = {}
  /\ dmFailure' = "none"
  /\ fetchUserCalls' = 0
  /\ dmSendCalls' = 0
  /\ dmSent' = 0
  /\ fbCalls' = 0
  /\ fbSendCalls' = 0
  /\ fbSent' = 0
  /\ fbContent' = None
  /\ fbOutcome' = "none"
  /\ errNotifs' = 0
  /\ dLog' = {}

dCfgVars == <<REVIEW_RECIPIENT_MODE, SPECIFIC_DISCORD_USER_ID,
              FALLBACK_CHANNEL_ID, mappings>>

DeliverInit ==
  /\ REVIEW_RECIPIENT_MODE \in {"specific", "author", "owner", "other"}
  /\ SPECIFIC_DISCORD_USER_ID \in {NoneId, 900}
  /\ FALLBACK_CHANNEL_ID \in {NoneId, 555}
  /\ mappings \in MappingTables
  /\ dPath = "poll"
  /\ dPc = "idle"
  /\ pr_data = NoPrData
  /\ ai_review = None
  /\ security_notes = None
  /\ recipient_id = NoneId
  /\ user_mention = None
  /\ reviewAttempted = FALSE
  /\ resolved = FALSE
  /\ scanCalls = 0
  /\ embedReview = {}
  /\ dmFailure = "none"
  /\ fetchUserCalls = 0
  /\ dmSendCalls = 0
  /\ dmSent = 0
  /\ fbCalls = 0
  /\ fbSendCalls = 0
  /\ fbSent = 0
  /\ fbContent = None
  /\ fbOutcome = "none"
  /\ errNotifs = 0
  /\ dLog = {}

\* The delivery pipeline as the poller specification holds it: configured,
\* no event taken up.
DeliverAtRest ==
  /\ DeliverInit
  /\ REVIEW_RECIPIENT_MODE = "specific"
  /\ SPECIFIC_DISCORD_USER_ID = NoneId
  /\ FALLBACK_CHANNEL_ID = NoneId
  /\ mappings = EmptyDict

\* The loop of poll_github_for_reviews takes the next event of merged_prs,
\* or the webhook server hands a merged PR to handle_pr_merged.
StartEvent ==
  /\ dPc \in {"idle", "done"}
  /\ \E path \in {"poll", "webhook"} : dPath' = path
  /\ dPc' = "get_pr_data"
  /\ EventReset
  /\ UNCHANGED <<dCfgVars, pollVars, cacheVars,
                 restVars>>

\* get_pr_data returns the PR's data.
GetPrDataOk ==
  /\ dPc = "get_pr_data"
  /\ \E pd \in PrDatas : pr_data' = pd
  /\ dPc' = AfterPrData
  /\ UNCHANGED <<dCfgVars, reviewAttempted, dPath, ai_review, security_notes, recipient_id,
                 user_mention, resolved, dmFailure, fetchUserCalls,
                 dmSendCalls, dmSent, fbCalls, fbSendCalls, fbSent,
                 fbContent, fbOutcome, errNotifs, dLog, scanCalls, embedReview,
                 pollVars, cacheVars,
                 restVars>>

\* get_pr_data returns None: the polling loop logs and continues with the
\* next event; the webhook handler logs, sends an error notification to the
\* fallback channel (when there is one) and returns.
GetPrDataNone ==
  /\ dPc = "get_pr_data"
  /\ dPc' = "done"
  /\ dLog' = dLog \cup {"Failed to fetch PR data"}
  /\ \/ /\ dPath = "poll"
        /\ UNCHANGED errNotifs
     \/ /\ dPath = "webhook"
        /\ \/ ~Truthy(FALLBACK_CHANNEL_ID) /\ UNCHANGED errNotifs
           \/ Truthy(FALLBACK_CHANNEL_ID) /\ errNotifs' \in {0, 1}
  /\ UNCHANGED <<dCfgVars, reviewAttempted, dPath, pr_data, ai_review, security_notes,
                 recipient_id, user_mention, resolved, dmFailure,
                 fetchUserCalls, dmSendCalls, dmSent, fbCalls, fbSendCalls,
                 fbSent, fbContent, fbOutcome, scanCalls, embedReview,
                 pollVars, cacheVars,
                 restVars>>

\* llm_service.review_code: a review, or None when generation failed.
ReviewCode ==
  /\ dPc = "review_code"
  /\ \E r \in {"review", None} :
       /\ ai_review' = r
       /\ dPc' = AfterReview(r)
  /\ reviewAttempted' = TRUE
  /\ UNCHANGED <<dCfgVars, dPath, pr_data, security_notes, recipient_id,
                 user_mention, resolved, dmFailure, fetchUserCalls,
                 dmSendCalls, dmSent, fbCalls, fbSendCalls, fbSent,
                 fbContent, fbOutcome, errNotifs, dLog, scanCalls, embedReview,
                 pollVars, cacheVars,
                 restVars>>

\* llm_service.security_scan, run only when there is a review.
SecurityScan ==
  /\ dPc = "security_scan"
  /\ \E n \in {"notes", None} : security_notes' = n
  /\ scanCalls' = Inc(scanCalls)
  /\ dPc' = "resolve"
  /\ UNCHANGED <<dCfgVars, reviewAttempted, dPath, pr_data, ai_review, recipient_id,
                 user_mention, resolved, dmFailure, fetchUserCalls,
                 dmSendCalls, dmSent, fbCalls, fbSendCalls, fbSent,
                 fbContent, fbOutcome, errNotifs, dLog, embedReview,
                 pollVars, cacheVars,
                 restVars>>

\* Recipient resolution and the dispatch on its result.
Resolve ==
  /\ dPc = "resolve"
  /\ LET id == IF dPath = "poll" THEN DetermineReviewRecipient(pr_data)
               ELSE WebhookDetermineRecipient(pr_data)
     IN /\ recipient_id' = id
        /\ dPc' = AfterResolve(id)
        /\ fbCalls' = IF AfterResolve(id) = "fallback"
                      THEN Inc(fbCalls) ELSE fbCalls
  /\ resolved' = TRUE
  /\ user_mention' = None
  /\ UNCHANGED <<dCfgVars, reviewAttempted, dPath, pr_data, ai_review, security_notes,
                 dmFailure, fetchUserCalls, dmSendCalls, dmSent,
                 fbSendCalls, fbSent, fbContent, fbOutcome, errNotifs, dLog,
                 scanCalls, embedReview,
                 pollVars, cacheVars,
                 restVars>>

\* The mention the path's handler passes to the fallback routine.
MentionFor(stage, failure) ==
  IF dPath = "poll" THEN FailureMention(stage, failure, recipient_id)
  ELSE WebhookFailureMention(stage, failure, recipient_id)

\* bot.fetch_user: the user, or discord.NotFound, or another exception.
FetchUser ==
  /\ dPc = "fetch_user"
  /\ fetchUserCalls' = Inc(fetchUserCalls)
  /\ \E outcome \in {"ok", "NotFound", "HTTPException"} :
       /\ dPc' = AfterFetchUser(outcome)
       /\ IF outcome = "ok"
          THEN UNCHANGED <<dmFailure, user_mention, fbCalls, dLog>>
          ELSE /\ dmFailure' = outcome
               /\ dLog' = dLog \cup {"Failed to send DM"}
               /\ IF AfterFetchUser(outcome) = "fallback"
                  THEN /\ fbCalls' = Inc(fbCalls)
                       /\ user_mention' = MentionFor("fetch_user", outcome)
                  ELSE UNCHANGED <<user_mention, fbCalls>>
  /\ UNCHANGED <<dCfgVars, reviewAttempted, dPath, pr_data, ai_review, security_notes,
                 recipient_id, resolved, dmSendCalls, dmSent, fbSendCalls,
                 fbSent, fbContent, fbOutcome, errNotifs, scanCalls, embedReview,
                 pollVars, cacheVars,
                 restVars>>

\* user.send(embed): delivered, or discord.Forbidden (DMs disabled), or
\* another exception.
UserSend ==
  /\ dPc = "user_send"
  /\ dmSendCalls' = Inc(dmSendCalls)
  /\ embedReview' = embedReview \cup {ReviewField(ai_review)}
  /\ \E outcome \in {"ok", "Forbidden", "HTTPException"} :
       /\ dPc' = AfterUserSend(outcome)
       /\ dmSent' = IF outcome = "ok" THEN Inc(dmSent) ELSE dmSent
       /\ dmFailure' = IF outcome = "ok" THEN dmFailure ELSE outcome
       /\ dLog' = IF outcome = "HTTPException"
                  THEN dLog \cup {"Failed to send DM"} ELSE dLog
       /\ IF AfterUserSend(outcome) = "fallback"
          THEN /\ fbCalls' = Inc(fbCalls)
               /\ user_mention' = MentionFor("user_send", outcome)
          ELSE UNCHANGED <<user_mention, fbCalls>>
  /\ UNCHANGED <<dCfgVars, reviewAttempted, dPath, pr_data, ai_review, security_notes,
                 recipient_id, resolved, fetchUserCalls, fbSendCalls, fbSent,
                 fbContent, fbOutcome, errNotifs, scanCalls,
                 pollVars, cacheVars,
                 restVars>>

\* send_review_to_fallback / _send_to_fallback_channel: no channel
\* configured.
FallbackUnconfigured ==
  /\ dPc = "fallback"
  /\ ~Truthy(FALLBACK_CHANNEL_ID)
  /\ fbOutcome' = "unconfigured"
  /\ dLog' = dLog \cup {"No fallback channel configured"}
  /\ dPc' = "done"
  /\ UNCHANGED <<dCfgVars, reviewAttempted, dPath, pr_data, ai_review, security_notes,
                 recipient_id, user_mention, resolved, dmFailure,
                 fetchUserCalls, dmSendCalls, dmSent, fbCalls, fbSendCalls,
                 fbSent, fbContent, errNotifs, scanCalls, embedReview,
                 pollVars, cacheVars,
                 restVars>>

\* bot.get_channel returns None: bot.py does nothing more (and logs
\* nothing), the webhook handler logs an error.
FallbackNoChannel ==
  /\ dPc = "fallback"
  /\ Truthy(FALLBACK_CHANNEL_ID)
  /\ fbOutcome' = "nochannel"
  /\ dLog' = IF dPath = "webhook"
             THEN dLog \cup {"Fallback channel not found"} ELSE dLog
  /\ dPc' = "done"
  /\ UNCHANGED <<dCfgVars, reviewAttempted, dPath, pr_data, ai_review, security_notes,
                 recipient_id, user_mention, resolved, dmFailure,
                 fetchUserCalls, dmSendCalls, dmSent, fbCalls, fbSendCalls,
                 fbSent, fbContent, errNotifs, scanCalls, embedReview,
                 pollVars, cacheVars,
                 restVars>>

\* channel.send(content, embed) in the fallback routine: sent, or an
\* exception, which the routine logs.
FallbackSend ==
  /\ dPc = "fallback"
  /\ Truthy(FALLBACK_CHANNEL_ID)
  /\ fbSendCalls' = Inc(fbSendCalls)
  /\ embedReview' = embedReview \cup {ReviewField(ai_review)}
  /\ \/ /\ fbSent' = Inc(fbSent)
        /\ fbContent' = FallbackMention(user_mention, pr_data.author)
        /\ fbOutcome' = "sent"
        /\ UNCHANGED dLog
     \/ /\ fbOutcome' = "sendfail"
        /\ dLog' = dLog \cup {"Failed to send to fallback channel"}
        /\ UNCHANGED <<fbSent, fbContent>>
  /\ dPc' = "done"
  /\ UNCHANGED <<dCfgVars, reviewAttempted, dPath, pr_data, ai_review, security_notes,
                 recipient_id, user_mention, resolved, dmFailure,
                 fetchUserCalls, dmSendCalls, dmSent, fbCalls, errNotifs,
                 scanCalls,
                 pollVars, cacheVars,
                 restVars>>

NextDeliver ==
  \/ StartEvent
  \/ GetPrDataOk
  \/ GetPrDataNone
  \/ ReviewCode
  \/ SecurityScan
  \/ Resolve
  \/ FetchUser
  \/ UserSend
  \/ FallbackUnconfigured
  \/ FallbackNoChannel
  \/ FallbackSend

\* ========================================================================
\* TTLCache: WebAppQueryService._get_cached and the lookups of
\* analyze_question_and_fetch_data
\* ========================================================================

\* The resource types the query service caches.
Keys == {"projects", "tasks", "github"}

\* What a fetch function returns when it succeeds: an empty list, or a
\* payload.
Datas == {"[]", "d1"}

NoLookup == [at |-> 0 - 1, fetched |-> FALSE, fetch_result |-> None, result |-> None]

\* A test that serves an entry up to and including the age cache_ttl.
IsFreshInclusive(t, timestamp) == t - timestamp <= cache_ttl

\* now - timestamp < self.cache_ttl
IsFresh(t, timestamp) == t - timestamp < cache_ttl

\* A store that caches whatever the fetch returned.
StoresAlways(data) == TRUE

\* "if data is not None": the fetch result is stored.
Stores(data) == data # None

\* A lookup that falls back to the expired entry when the refetch returns
\* None.
GetCachedServeStale(c, key, t, fetched) ==
  IF key \in DOMAIN c /\ IsFresh(t, c[key].timestamp)
  THEN [result |-> c[key].data, called |-> FALSE, cache |-> c]
  ELSE [result |-> IF fetched = None /\ key \in DOMAIN c THEN c[key].data
                   ELSE fetched,
        called |-> TRUE,
        cache |-> IF Stores(fetched)
                  THEN Put(c, key, [data |-> fetched, timestamp |-> t])
                  ELSE c]

\* _get_cached(key, fetch_func) at time t, the fetch function returning
\* fetched if it is called: what is returned, whether the fetch function was
\* called, and the cache afterwards.
GetCached(c, key, t, fetched) ==
  IF key \in DOMAIN c /\ IsFresh(t, c[key].timestamp)
  THEN [result |-> c[key].data, called |-> FALSE, cache |-> c]
  ELSE [result |-> fetched, called |-> TRUE,
        cache |-> IF Stores(fetched)
                  THEN Put(c, key, [data |-> fetched, timestamp |-> t])
                  ELSE c]

\* The lookups analyze_question_and_fetch_data makes, in order, for what the
\* question needs; a project in the conversation context (ctx) asks for the
\* projects too, and the github summary needs a GitHub client.
LookupsOf(needs_projects, needs_tasks, needs_team, needs_github, ctx, client) ==
  (IF needs_projects \/ ctx THEN <<"projects">> ELSE <<>>)
    \o (IF needs_tasks THEN <<"tasks">> ELSE <<>>)
    \o (IF needs_team THEN <<"tasks">> ELSE <<>>)
    \o (IF needs_github /\ client THEN <<"github">> ELSE <<>>)

CacheInit ==
  /\ cache = EmptyDict
  /\ clock = 0
  /\ pending = <<>>
  /\ watched \in Keys
  /\ seen = NoLookup

\* The cache as the other specifications hold it: empty.
CacheAtRest ==
  /\ CacheInit
  /\ watched = "projects"

\* Time passes: between two questions, and while a fetch is under way.
CacheClockTick ==
  /\ clock < MaxClock
  /\ clock' = clock + 1
  /\ UNCHANGED <<cache, pending, watched, seen, pollVars, deliverVars,
               restVars>>

\* analyze_question_and_fetch_data is called with a question: the keyword
\* tests decide what it looks up.
AnalyzeQuestion ==
  /\ pending = <<>>
  /\ \E needs_projects \in BOOLEAN, needs_tasks \in BOOLEAN,
        needs_team \in BOOLEAN, needs_github \in BOOLEAN,
        current_project \in BOOLEAN :
       pending' = LookupsOf(needs_projects, needs_tasks, needs_team,
                            needs_github, current_project, github)
  /\ UNCHANGED <<cache, clock, watched, seen, pollVars, deliverVars,
               restVars>>

\* The next _get_cached call of the running analysis, the fetch function
\* returning data or None (its request failed) if it is called.
Lookup ==
  /\ pending # <<>>
  /\ \E fetched \in Datas \cup {None} :
       LET key == Head(pending)
           got == GetCached(cache, key, clock, fetched)
       IN /\ cache' = got.cache
          /\ seen' = IF key = watched
                     THEN [at |-> clock, fetched |-> got.called,
                           fetch_result |-> IF got.called THEN fetched
                                            ELSE None,
                           result |-> got.result]
                     ELSE seen
  /\ pending' = Tail(pending)
  /\ UNCHANGED <<clock, watched, pollVars, deliverVars,
               restVars>>

NextCache ==
  \/ CacheClockTick
  \/ AnalyzeQuestion
  \/ Lookup

\* ========================================================================
\* RetryingFetcher: APIService over a requests session with a Retry policy
\* ========================================================================

\* Retry(total=3, ...): the retries one call may make.
total == 3

\* Retry(status_forcelist=[429, 500, 502, 503, 504])
status_forcelist == {"429", "500", "502", "503", "504"}

\* What an attempt can meet: a response with a status, or no response
\* within self.timeout.
Outcomes == {"200", "404", "429", "500", "501", "503", "timeout"}

\* What the body of a 200 response can be: the document with a 'projects'
\* field, a bare list, another JSON value, or no JSON at all.
Bodies == {"dict", "list", "other", "not_json"}

\* The attempts the Retry policy repeats: a status of the force list (GET
\* is among the allowed methods), and an attempt that timed out.
IsRetry(outcome) == outcome \in status_forcelist \/ outcome = "timeout"

\* A policy that never runs out of retries.
IsNeverExhausted(left) == FALSE

\* Retry.is_exhausted of the policy after an increment: a count below 0.
IsExhausted(left) == left < 0

\* No call of the backend made so far.
FetchAtRest ==
  /\ apiPc = "idle"
  /\ retry_total = total
  /\ responses = <<>>
  /\ apiResult = None

\* get_active_projects() is called: self.session.get(..., timeout) starts
\* the first attempt with the policy of the adapter.
GetActiveProjects ==
  /\ apiPc \in {"idle", "returned", "raised"}
  /\ apiPc' = "request"
  /\ retry_total' = total
  /\ responses' = <<>>
  /\ apiResult' = None
  /\ UNCHANGED <<pollVars, deliverVars, cacheVars, convVars, schedVars, queryVars, tableVars, lateVars>>

\* The attempt gets a 200: raise_for_status passes, response.json() is
\* read and the projects are returned: data['projects'], the list itself,
\* [] for another structure; a body that is no JSON raises.
ResponseOk ==
  /\ apiPc = "request"
  /\ responses' = Append(responses, "200")
  /\ \E body \in Bodies :
       /\ apiPc' = IF body = "not_json" THEN "raised" ELSE "returned"
       /\ apiResult' = CASE body = "dict" -> "projects"
                         [] body = "list" -> "data"
                         [] body = "other" -> "[]"
                         [] body = "not_json" -> None
  /\ UNCHANGED <<retry_total, pollVars, deliverVars, cacheVars, convVars, schedVars, queryVars, tableVars, lateVars>>

\* The attempt gets an error status outside the force list: the adapter
\* hands the response back, raise_for_status raises, the except block logs
\* and raises again.
ResponseError ==
  /\ apiPc = "request"
  /\ \E outcome \in {o \in Outcomes : o # "200" /\ ~IsRetry(o)} :
       responses' = Append(responses, outcome)
  /\ apiPc' = "raised"
  /\ UNCHANGED <<retry_total, apiResult, pollVars, deliverVars, cacheVars, convVars, schedVars, queryVars, tableVars, lateVars>>

\* The attempt meets what the policy repeats: Retry.increment takes one
\* from total; the exhausted policy raises (MaxRetryError, which requests
\* raises as a RequestException; the except block logs and raises again),
\* otherwise the adapter sleeps and attempts again.
ResponseRetry ==
  /\ apiPc = "request"
  /\ \E outcome \in {o \in Outcomes : IsRetry(o)} :
       responses' = Append(responses, outcome)
  /\ retry_total' = retry_total - 1
  /\ apiPc' = IF IsExhausted(retry_total') THEN "raised" ELSE "backoff"
  /\ UNCHANGED <<apiResult, pollVars, deliverVars, cacheVars, convVars, schedVars, queryVars, tableVars, lateVars>>

\* The sleep of backoff_factor=1 is over: the next attempt is sent.
BackoffElapsed ==
  /\ apiPc = "backoff"
  /\ apiPc' = "request"
  /\ UNCHANGED <<retry_total, responses, apiResult, pollVars, deliverVars, cacheVars, convVars, schedVars, queryVars, tableVars, lateVars>>

\* The read endpoints: get_active_projects, get_recent_tasks,
\* get_user_stats, get_incomplete_tasks, get_recent_commits.
Endpoints == {"projects", "tasks/recent", "stats", "incomplete", "commits"}

\* What response.json() can give for a well-formed body: a list, a dict
\* with a 'projects' field, a dict without, a string, a number, null.
JsonBodies == {"list", "dict_projects", "dict", "string", "number", "null"}

\* The structure the endpoint is expected to answer with: the projects as
\* a list or nested under 'projects', the others a list.
Expected(endpoint, body) ==
  body = "list" \/ (endpoint = "projects" /\ body = "dict_projects")

\* len(data) is defined: on a list, a dict and a string.
HasLen(body) == body \in {"list", "dict_projects", "dict", "string"}

\* get_active_projects from response.json() on: data['projects'], the
\* list itself, or [] after "Unexpected API response structure".
ActiveProjectsFrom(body) ==
  CASE body = "dict_projects" -> [raised |-> FALSE, returned |-> "projects"]
    [] body = "list" -> [raised |-> FALSE, returned |-> "list"]
    [] OTHER -> [raised |-> FALSE, returned |-> "[]"]

\* The other read endpoints from response.json() on: the log line
\* evaluates len(data), which raises a TypeError (not a RequestException,
\* so the except block lets it through) where len is not defined; then
\* data is returned as it is.
DataFrom(body) ==
  IF HasLen(body) THEN [raised |-> FALSE, returned |-> body]
  ELSE [raised |-> TRUE, returned |-> None]

\* No read recorded.
ReadAtRest == reads = <<>>

\* A read endpoint is called and the backend answers 200 with a JSON body.
ReadEndpoint ==
  /\ Len(reads) < MaxReads
  /\ \E endpoint \in Endpoints, body \in JsonBodies :
       \E r \in {IF endpoint = "projects" THEN ActiveProjectsFrom(body) ELSE DataFrom(body)} :
         reads' = Append(reads, [endpoint |-> endpoint, body |-> body,
                                 raised |-> r.raised, returned |-> r.returned])
  /\ UNCHANGED <<pollVars, deliverVars, cacheVars, convVars, schedVars, queryVars,
                 fetchVars, tableVars, loopVars, routeVars, reportVars, chatVars>>

NextRead == ReadEndpoint

NextFetch ==
  \/ GetActiveProjects
  \/ ResponseOk
  \/ ResponseError
  \/ ResponseRetry
  \/ BackoffElapsed

\* ========================================================================
\* QueryRouter: analyze_question_and_fetch_data as one call
\* ========================================================================

\* The current_project of the asking user's conversation context: none, or
\* a project name as the user wrote it.
ContextProjects == {None, "alpha", "Beta"}

\* str.lower() of the project names in play.
Lower == ("Alpha" :> "alpha") @@ ("alpha" :> "alpha") @@ ("Beta" :> "beta") @@ ("beta" :> "beta")

\* The items of a payload, each by the project it belongs to (the name of
\* a project, the projectName of a task).
Items(data) == IF data = "d1" THEN <<"Alpha", "beta">> ELSE <<>>

\* Python truth of what _get_cached returned: None and [] are false.
TruthyData(data) == data \notin {None, "[]"}

\* [p for p in projects if p.get('name', '').lower() ==
\*  context.current_project.lower()], and the same over projectName
FilterByProject(data, current_project) ==
  SelectSeq(Items(data), LAMBDA name : Lower[name] = Lower[current_project])

\* A key that carries the project of the asking user's context.
CacheKeyByContext(resource, current_project) ==
  IF current_project = None THEN resource ELSE resource \o ":" \o current_project

\* The key under which a resource type is looked up: the literal
\* 'projects', 'tasks' or 'github', whoever asks.
CacheKey(resource, current_project) == resource

\* No lookup made: the cache is as it was.
Skipped(c) == [result |-> None, called |-> FALSE, cache |-> c, looked |-> FALSE]

\* self._get_cached(key, fetch_func) made by the analysis.
Looked(got) == [result |-> got.result, called |-> got.called, cache |-> got.cache, looked |-> TRUE]

\* analyze_question_and_fetch_data(question, context) at time t on the
\* cache c: q holds the outcomes of the keyword tests, client tells whether
\* there is a GitHub client, f[i] is what the fetch function returns to the
\* i-th lookup if that lookup calls it.  The result holds the cache after
\* the call, the bundle returned (data), the keys whose fetch function was
\* called and what _get_cached returned for each key looked up.
AnalyzeQuestionAndFetchData(c, t, q, current_project, client, f) ==
  LET has_context == current_project # None
      l1 == IF q.needs_projects \/ has_context
            THEN Looked(GetCached(c, CacheKey("projects", current_project), t, f[1]))
            ELSE Skipped(c)
      d1 == IF l1.looked /\ TruthyData(l1.result)
            THEN Put(EmptyDict, "projects",
                     IF has_context THEN FilterByProject(l1.result, current_project)
                     ELSE Items(l1.result))
            ELSE EmptyDict
      l2 == IF q.needs_tasks
            THEN Looked(GetCached(l1.cache, CacheKey("tasks", current_project), t, f[2]))
            ELSE Skipped(l1.cache)
      d2 == IF l2.looked /\ TruthyData(l2.result)
            THEN Put(d1, "tasks",
                     IF has_context THEN FilterByProject(l2.result, current_project)
                     ELSE Items(l2.result))
            ELSE d1
      l3 == IF q.needs_team
            THEN Looked(GetCached(l2.cache, CacheKey("tasks", current_project), t, f[3]))
            ELSE Skipped(l2.cache)
      d3 == IF l3.looked /\ TruthyData(l3.result)
            THEN Put(d2, "tasks", Items(l3.result))
            ELSE d2
      l4 == IF q.needs_github /\ client
            THEN Looked(GetCached(l3.cache, CacheKey("github", current_project), t, f[4]))
            ELSE Skipped(l3.cache)
      d4 == IF l4.looked /\ TruthyData(l4.result)
            THEN Put(d3, "github", Items(l4.result))
            ELSE d3
      g1 == IF l1.looked THEN Put(EmptyDict, "projects", l1.result) ELSE EmptyDict
      g2 == IF l2.looked THEN Put(g1, "tasks", l2.result) ELSE g1
      g3 == IF l3.looked THEN Put(g2, "tasks", l3.result) ELSE g2
      g4 == IF l4.looked THEN Put(g3, "github", l4.result) ELSE g3
  IN [cache |-> l4.cache,
      data |-> d4,
      called |-> (IF l1.called THEN {"projects"} ELSE {})
                   \cup (IF l2.called \/ l3.called THEN {"tasks"} ELSE {})
                   \cup (IF l4.called THEN {"github"} ELSE {}),
      got |-> g4]

\* The outcomes of the keyword tests on a question.
Questions ==
  [needs_projects : BOOLEAN, needs_tasks : BOOLEAN, needs_team : BOOLEAN, needs_github : BOOLEAN]

\* The bundle has no entry for the key.
NoEntry == [present |-> FALSE, items |-> <<>>]

\* The entry of the bundle for the key.
EntryOf(data, key) ==
  IF key \in DOMAIN data THEN [present |-> TRUE, items |-> data[key]] ELSE NoEntry

NoAsk == [at |-> 0 - 1, current_project |-> None, previous_project |-> "nobody", looked |-> FALSE, called |-> FALSE, got |-> None, entry |-> NoEntry]

\* No question asked so far.
QueryAtRest == lastAsk = NoAsk

\* What the fetch function of a lookup may return: a payload, an empty
\* list, or None when its request failed; None stands for the result of a
\* fetch function that is not called.
FetchResults(wanted, c, key, t) ==
  IF wanted /\ ~(key \in DOMAIN c /\ IsFresh(t, c[key].timestamp))
  THEN Datas \cup {None} ELSE {None}

\* handle_conversation calls analyze_question_and_fetch_data for a user's
\* question: the call is synchronous, no other user's call runs within it.
\* Without a GitHub client a question about GitHub is routed as one that is
\* not ('needs_github and self.github_service').
\* The history keeps the part of the call that is about the watched key.
Ask ==
  /\ pending = <<>>
  /\ \E q \in {x \in Questions : x.needs_github => github}, current_project \in ContextProjects :
       \E f1 \in FetchResults(q.needs_projects \/ current_project # None, cache, "projects", clock),
          f2 \in FetchResults(q.needs_tasks, cache, "tasks", clock),
          f3 \in FetchResults(q.needs_team, cache, "tasks", clock),
          f4 \in FetchResults(q.needs_github /\ github, cache, "github", clock) :
         \E r \in {AnalyzeQuestionAndFetchData(cache, clock, q, current_project, github, <<f1, f2, f3, f4>>)} :
            /\ cache' = r.cache
            /\ lastAsk' = [at |-> clock, current_project |-> current_project,
                           previous_project |-> IF lastAsk.at >= 0 THEN lastAsk.current_project ELSE "nobody",
                           looked |-> watched \in DOMAIN r.got,
                           called |-> watched \in r.called,
                           got |-> Get(r.got, watched, None),
                           entry |-> EntryOf(r.data, watched)]
  /\ UNCHANGED <<clock, pending, watched, seen, pollVars, deliverVars, convVars,
                 schedVars, fetchVars, tableVars, lateVars>>

NextQuery ==
  \/ CacheClockTick
  \/ Ask

\* The outcomes of the keyword tests of analyze_question_and_fetch_data,
\* needs_stats among them.
RoutedQuestions ==
  [needs_projects : BOOLEAN, needs_tasks : BOOLEAN, needs_team : BOOLEAN,
   needs_stats : BOOLEAN, needs_github : BOOLEAN]

NoRoute == [asked |-> FALSE]

\* No question routed so far.
RouteAtRest == lastRoute = NoRoute

\* analyze_question_and_fetch_data called for a question, as in Ask.
\* needs_stats is assigned (line 46) and not read afterwards.
Route ==
  /\ pending = <<>>
  /\ \E q \in {x \in RoutedQuestions : x.needs_github => github}, current_project \in ContextProjects :
       \E f1 \in FetchResults(q.needs_projects \/ current_project # None, cache, "projects", clock),
          f2 \in FetchResults(q.needs_tasks, cache, "tasks", clock),
          f3 \in FetchResults(q.needs_team, cache, "tasks", clock),
          f4 \in FetchResults(q.needs_github /\ github, cache, "github", clock) :
         \E r \in {AnalyzeQuestionAndFetchData(cache, clock, q, current_project, github, <<f1, f2, f3, f4>>)} :
            /\ cache' = r.cache
            /\ lastRoute' = [asked |-> TRUE, q |-> q, current_project |-> current_project,
                             looked |-> DOMAIN r.got, called |-> r.called,
                             tasks |-> EntryOf(r.data, "tasks")]
  /\ UNCHANGED <<clock, pending, watched, seen, pollVars, deliverVars, convVars,
                 schedVars, queryVars, fetchVars, tableVars, loopVars, readVars,
                 reportVars, chatVars>>

\* The questions of one moment: the clock stands still.
NextRoute == Route

\* ========================================================================
\* ConversationStore: ConversationManager
\* ========================================================================

\* The user ids the bot passes, str(message.author.id).
ConvUsers == {"u1", "u2"}

\* The keyword arguments update_context looks for.
Slots == {"project", "task", "user", "topic"}

\* What a keyword argument of update_context can hold: a name, or None.
ContextValues == {"x", None}

\* The keyword arguments of one update_context call: none; project and
\* topic together, as update_context_from_question passes them; user
\* alone, as it passes it, with either value; task alone.
Kwargs ==
  {EmptyDict, [k \in {"project", "topic"} |-> "x"], [k \in {"task"} |-> "x"]}
    \cup {[k \in {"user"} |-> v] : v \in ContextValues}

\* ConversationContext(): every slot is None.
NewContext == [current_project |-> None, current_task |-> None, current_user |-> None, topic |-> None]

\* ConversationContext.to_dict
ToDict(ctx) ==
  [k \in {"current_project", "current_task", "current_user", "topic"} |->
     CASE k = "current_project" -> ctx.current_project
       [] k = "current_task" -> ctx.current_task
       [] k = "current_user" -> ctx.current_user
       [] k = "topic" -> ctx.topic]

\* ConversationContext.from_dict: data.get(key) for each of the four keys.
FromDict(data) ==
  [current_project |-> Get(data, "current_project", None),
   current_task |-> Get(data, "current_task", None),
   current_user |-> Get(data, "current_user", None),
   topic |-> Get(data, "topic", None)]

\* The history file: absent, a JSON document, or what a write that failed
\* after open(..., 'w') truncated the file leaves behind.
NoFile == [state |-> "absent", data |-> EmptyDict]

CorruptFile == [state |-> "corrupt", data |-> EmptyDict]

\* How a call of _save_conversations can end: the document is written; or,
\* when the file cannot be written, an exception before the file is opened
\* leaves it as it was and an exception after the file is opened leaves it
\* truncated. The exception is logged in both cases.
SaveOutcomes(writable) == IF writable THEN {"ok"} ELSE {"failed", "corrupt"}

\* The document _save_conversations builds from the records in memory.
Document(convs) ==
  [u \in DOMAIN convs |->
     [messages |-> convs[u].messages,
      context |-> ToDict(convs[u].context),
      last_updated |-> convs[u].last_updated]]

\* A save that writes the messages and the timestamps but not the context.
SaveConversationsNoContext(file, convs, outcome) ==
  CASE outcome = "ok" ->
         [state |-> "ok",
          data |-> [u \in DOMAIN convs |->
                      [messages |-> convs[u].messages,
                       context |-> ToDict(NewContext),
                       last_updated |-> convs[u].last_updated]]]
    [] outcome = "failed" -> file
    [] outcome = "corrupt" -> CorruptFile

\* _save_conversations: the history file afterwards.
SaveConversations(file, convs, outcome) ==
  CASE outcome = "ok" -> [state |-> "ok", data |-> Document(convs)]
    [] outcome = "failed" -> file
    [] outcome = "corrupt" -> CorruptFile

\* _load_conversations: the records read from the history file; none if
\* there is no file or the file does not parse.
LoadConversations(file) ==
  IF file.state = "ok"
  THEN [u \in DOMAIN file.data |->
          [messages |-> file.data[u].messages,
           context |-> FromDict(file.data[u].context),
           last_updated |-> file.data[u].last_updated]]
  ELSE EmptyDict

\* _init_user_conversation
InitUserConversation(convs, user_id) ==
  Put(convs, user_id, [messages |-> <<>>, context |-> NewContext, last_updated |-> now])

\* l[start:] of Python.
PySliceFrom(l, start) ==
  LET n == Len(l)
      s == IF start < 0 THEN (IF n + start < 0 THEN 0 ELSE n + start)
           ELSE Min(start, n)
  IN SubSeq(l, s + 1, n)

\* "Trim history if too long": messages[-self.max_history * 2:]
Trim(messages, mh) ==
  IF Len(messages) > mh * 2 THEN PySliceFrom(messages, 0 - mh * 2)
  ELSE messages

\* The records after add_message(user_id, role, content), before the save.
WithMessage(convs, user_id, role, content, mh) ==
  LET c == IF user_id \in DOMAIN convs THEN convs
           ELSE InitUserConversation(convs, user_id)
      appended == Append(c[user_id].messages, [role |-> role, content |-> content, timestamp |-> now])
  IN Put(c, user_id, [messages |-> Trim(appended, mh), context |-> c[user_id].context, last_updated |-> now])

\* An update that rebuilds the context from the keyword arguments alone.
KwargsAppliedToNew(ctx, kw) ==
  [current_project |-> Get(kw, "project", None),
   current_task |-> Get(kw, "task", None),
   current_user |-> Get(kw, "user", None),
   topic |-> Get(kw, "topic", None)]

\* The four "if 'slot' in kwargs" assignments of update_context.
KwargsApplied(ctx, kw) ==
  [current_project |-> Get(kw, "project", ctx.current_project),
   current_task |-> Get(kw, "task", ctx.current_task),
   current_user |-> Get(kw, "user", ctx.current_user),
   topic |-> Get(kw, "topic", ctx.topic)]

\* The records after update_context(user_id, **kw), before the save.
WithContext(convs, user_id, kw) ==
  LET c == IF user_id \in DOMAIN convs THEN convs
           ELSE InitUserConversation(convs, user_id)
  IN Put(c, user_id, [messages |-> c[user_id].messages, context |-> KwargsApplied(c[user_id].context, kw), last_updated |-> c[user_id].last_updated])

\* A reset that empties the messages and keeps the record.
WithoutMessages(convs, user_id) ==
  Put(convs, user_id, [messages |-> <<>>, context |-> convs[user_id].context, last_updated |-> convs[user_id].last_updated])

\* del self.conversations[user_id]
Without(convs, user_id) == [u \in (DOMAIN convs) \ {user_id} |-> convs[u]]

\* get_context: the context returned and the records afterwards.
GetContextOf(convs, user_id) ==
  LET c == IF user_id \in DOMAIN convs THEN convs
           ELSE InitUserConversation(convs, user_id)
  IN [context |-> c[user_id].context, conversations |-> c]

\* get_history: the messages returned.
GetHistoryOf(convs, user_id) ==
  IF user_id \in DOMAIN convs THEN convs[user_id].messages ELSE <<>>

\* The texts a user sends are told apart by their place in the
\* conversation: the n-th message appended for a user since the user's
\* record was created has content n; the roles alternate as in
\* handle_conversation.
NextContent(convs, user_id) ==
  IF user_id \in DOMAIN convs /\ convs[user_id].messages # <<>>
  THEN convs[user_id].messages[Len(convs[user_id].messages)].content + 1
  ELSE 1

RoleOf(n) == IF n % 2 = 1 THEN "user" ELSE "assistant"

\* The history of the last call: the method ("get" for get_history and
\* get_context), the user and the keyword arguments of an update_context or
\* a reset_conversation, and whether the call wrote the history file.
NoOp == [op |-> "none", user_id |-> None, kwargs |-> EmptyDict, saved |-> FALSE]

Op(op, user_id, kw, saved) == [op |-> op, user_id |-> user_id, kwargs |-> kw, saved |-> saved]

\* ConversationManager(history_file, max_history) on a machine without a
\* history file.
ConvInit ==
  /\ max_history \in 0..MaxHistory
  /\ conversations = EmptyDict
  /\ history_file = NoFile
  /\ disk_writable \in BOOLEAN
  /\ convOp = NoOp

\* The conversation store as the other specifications hold it: empty.
ConvAtRest ==
  /\ ConvInit
  /\ max_history = MaxHistory
  /\ disk_writable

\* What kept the history file from being written is repaired.
DiskRepaired ==
  /\ ~disk_writable
  /\ disk_writable' = TRUE
  /\ UNCHANGED <<max_history, conversations, history_file, convOp, pollVars, deliverVars, cacheVars, schedVars, queryVars, fetchVars, tableVars, lateVars>>

\* add_message(user_id, role, content)
AddMessage ==
  \E user_id \in ConvUsers, outcome \in SaveOutcomes(disk_writable) :
    LET n == NextContent(conversations, user_id)
    IN /\ n <= 2 * max_history + MaxExtraAppends
       /\ conversations' = WithMessage(conversations, user_id, RoleOf(n), n, max_history)
       /\ history_file' = SaveConversations(history_file, conversations', outcome)
       /\ convOp' = Op("add_message", None, EmptyDict, outcome = "ok")
    /\ UNCHANGED <<max_history, disk_writable, pollVars, deliverVars, cacheVars,
                 schedVars, queryVars, fetchVars, tableVars, lateVars>>

\* update_context(user_id, **kwargs)
UpdateContext ==
  \E user_id \in ConvUsers, kw \in Kwargs, outcome \in SaveOutcomes(disk_writable) :
    /\ conversations' = WithContext(conversations, user_id, kw)
    /\ history_file' = SaveConversations(history_file, conversations', outcome)
    /\ convOp' = Op("update_context", user_id, kw, outcome = "ok")
    /\ UNCHANGED <<max_history, disk_writable, pollVars, deliverVars, cacheVars,
                 schedVars, queryVars, fetchVars, tableVars, lateVars>>

\* reset_conversation(user_id) of a user with a record
ResetConversation ==
  \E user_id \in DOMAIN conversations, outcome \in SaveOutcomes(disk_writable) :
    /\ conversations' = Without(conversations, user_id)
    /\ history_file' = SaveConversations(history_file, conversations', outcome)
    /\ convOp' = Op("reset_conversation", user_id, EmptyDict, outcome = "ok")
    /\ UNCHANGED <<max_history, disk_writable, pollVars, deliverVars, cacheVars,
                 schedVars, queryVars, fetchVars, tableVars, lateVars>>

\* reset_conversation(user_id) of a user without a record: nothing is done
ResetUnknown ==
  \E user_id \in ConvUsers \ DOMAIN conversations :
    /\ convOp' = Op("reset_conversation", user_id, EmptyDict, FALSE)
    /\ UNCHANGED <<max_history, conversations, disk_writable, history_file, pollVars, deliverVars, cacheVars,
                 schedVars, queryVars, fetchVars, tableVars, lateVars>>

\* get_history(user_id)
GetHistory ==
  \E user_id \in ConvUsers :
    /\ convOp' = Op("get", None, EmptyDict, FALSE)
    /\ UNCHANGED <<max_history, conversations, disk_writable, history_file, pollVars, deliverVars, cacheVars,
                 schedVars, queryVars, fetchVars, tableVars, lateVars>>

\* get_context(user_id)
GetContext ==
  \E user_id \in ConvUsers :
    LET got == GetContextOf(conversations, user_id)
    IN /\ conversations' = got.conversations
       /\ convOp' = Op("get", None, EmptyDict, FALSE)
       /\ UNCHANGED <<max_history, disk_writable, history_file, pollVars, deliverVars, cacheVars,
                 schedVars, queryVars, fetchVars, tableVars, lateVars>>

\* ------------------------------------------------------------------------
\* handle_conversation: one task per direct message
\* ------------------------------------------------------------------------

\* The tasks on_message runs handle_conversation in, one per message.
ChatTasks == {1, 2}

\* The content of the welcome message.
Welcome == 0

\* What can fail before the reply is sent without raising: a fetch
\* function of the query router (it returns None), the inference call
\* (chat returns None and the fallback text is the reply).
ChatFailures == {"none", "data_fetch", "inference"}

NoMessage == [user |-> None, n |-> Welcome, failed |-> "none", projects |-> FALSE]

\* A handler that stores the reply, then the question.
ExchangeReplyFirst(convs, user_id, n, mh) ==
  WithMessage(WithMessage(convs, user_id, "assistant", n, mh), user_id, "user", n, mh)

\* "Update conversation history": add_message(user_id, 'user',
\* user_question), add_message(user_id, 'assistant', ai_response); the
\* reply carries the number of its question.
Exchange(convs, user_id, n, mh) ==
  WithMessage(WithMessage(convs, user_id, "user", n, mh), user_id, "assistant", n, mh)

\* A handler that stores the exchange whether the reply was sent or not.
HistoryAfterReplyAlways(convs, user_id, n, mh, sent) == Exchange(convs, user_id, n, mh)

\* The records after message.reply(ai_response): the exchange is stored
\* when the reply was sent; when the send raised the except block is
\* entered and nothing is stored.
HistoryAfterReply(convs, user_id, n, mh, sent) ==
  IF sent THEN Exchange(convs, user_id, n, mh) ELSE convs

\* update_context_from_question: with projects in the bundle the project
\* and the topic are set.
ContextAfterReply(convs, user_id, has_projects) ==
  IF has_projects THEN WithContext(convs, user_id, [k \in {"project", "topic"} |-> "x"])
  ELSE convs

\* No message under way, no welcome sent.
ChatAtRest ==
  /\ chatPc = [t \in ChatTasks |-> "idle"]
  /\ chatMsg = [t \in ChatTasks |-> NoMessage]
  /\ welcomes = [u \in ConvUsers |-> 0]
  /\ asked = 0

\* handle_conversation up to its first send: get_history and get_context
\* (which makes the record of an unknown user); with an empty history the
\* handler is suspended at the reply of the welcome; otherwise the data
\* are fetched and the inference is called, both synchronous, neither
\* raising, and the handler is suspended at the reply.
HandleBegin(t) ==
  /\ chatPc[t] = "idle"
  /\ \E user_id \in ConvUsers :
       /\ conversations' = GetContextOf(conversations, user_id).conversations
       /\ IF GetHistoryOf(conversations, user_id) = <<>>
          THEN /\ chatPc' = [chatPc EXCEPT ![t] = "welcome"]
               /\ chatMsg' = [chatMsg EXCEPT ![t] = [NoMessage EXCEPT !.user = user_id]]
               /\ UNCHANGED asked
          ELSE /\ asked < MaxQuestions
               /\ asked' = asked + 1
               /\ chatPc' = [chatPc EXCEPT ![t] = "reply"]
               /\ \E failed \in ChatFailures, has_projects \in BOOLEAN :
                    /\ failed = "data_fetch" => ~has_projects
                    /\ chatMsg' = [chatMsg EXCEPT ![t] =
                                     [user |-> user_id, n |-> asked', failed |-> failed,
                                      projects |-> has_projects]]
  /\ UNCHANGED <<max_history, disk_writable, history_file, convOp, welcomes, pollVars,
                 deliverVars, cacheVars, schedVars, queryVars, fetchVars, tableVars,
                 loopVars, routeVars, readVars, reportVars>>

\* message.reply(welcome) is over: sent, and the welcome is stored; or it
\* raised and the except block sends the error message.
WelcomeOver(t) ==
  /\ chatPc[t] = "welcome"
  /\ \/ /\ welcomes' = [welcomes EXCEPT ![chatMsg[t].user] = Min(@ + 1, 2)]
        /\ conversations' = WithMessage(conversations, chatMsg[t].user, "assistant",
                                        Welcome, max_history)
        /\ history_file' = SaveConversations(history_file, conversations', "ok")
        /\ chatPc' = [chatPc EXCEPT ![t] = "idle"]
        /\ chatMsg' = [chatMsg EXCEPT ![t] = NoMessage]
     \/ /\ chatPc' = [chatPc EXCEPT ![t] = "error_reply"]
        /\ UNCHANGED <<welcomes, conversations, history_file, chatMsg>>
  /\ UNCHANGED <<max_history, disk_writable, convOp, asked, pollVars,
                 deliverVars, cacheVars, schedVars, queryVars, fetchVars, tableVars,
                 loopVars, routeVars, readVars, reportVars>>

\* message.reply(ai_response) is over: sent, the question and the reply
\* are stored and the context is updated; or it raised and the except
\* block sends the error message.
ReplyOver(t) ==
  /\ chatPc[t] = "reply"
  /\ \E sent \in BOOLEAN :
       /\ conversations' =
            IF sent
            THEN ContextAfterReply(
                   HistoryAfterReply(conversations, chatMsg[t].user, chatMsg[t].n,
                                     max_history, sent),
                   chatMsg[t].user, chatMsg[t].projects)
            ELSE HistoryAfterReply(conversations, chatMsg[t].user, chatMsg[t].n,
                                   max_history, sent)
       /\ history_file' = IF conversations' # conversations
                          THEN SaveConversations(history_file, conversations', "ok")
                          ELSE history_file
       /\ chatPc' = [chatPc EXCEPT ![t] = IF sent THEN "idle" ELSE "error_reply"]
       /\ chatMsg' = [chatMsg EXCEPT ![t] = IF sent THEN NoMessage ELSE @]
  /\ UNCHANGED <<max_history, disk_writable, convOp, welcomes, asked, pollVars,
                 deliverVars, cacheVars, schedVars, queryVars, fetchVars, tableVars,
                 loopVars, routeVars, readVars, reportVars>>

\* message.reply(error_msg) is over, sent or not: the handler ends.
ErrorReplyOver(t) ==
  /\ chatPc[t] = "error_reply"
  /\ chatPc' = [chatPc EXCEPT ![t] = "idle"]
  /\ chatMsg' = [chatMsg EXCEPT ![t] = NoMessage]
  /\ UNCHANGED <<convVars, welcomes, asked, pollVars,
                 deliverVars, cacheVars, schedVars, queryVars, fetchVars, tableVars,
                 loopVars, routeVars, readVars, reportVars>>

\* The reset command: reset_conversation(user_id) of a user with a record.
ChatReset ==
  /\ \E user_id \in DOMAIN conversations :
       /\ conversations' = Without(conversations, user_id)
       /\ welcomes' = [welcomes EXCEPT ![user_id] = 0]
  /\ history_file' = SaveConversations(history_file, conversations', "ok")
  /\ UNCHANGED <<max_history, disk_writable, convOp, chatPc, chatMsg, asked, pollVars,
                 deliverVars, cacheVars, schedVars, queryVars, fetchVars, tableVars,
                 loopVars, routeVars, readVars, reportVars>>

NextChat ==
  \/ \E t \in ChatTasks : HandleBegin(t)
  \/ \E t \in ChatTasks : WelcomeOver(t)
  \/ \E t \in ChatTasks : ReplyOver(t)
  \/ \E t \in ChatTasks : ErrorReplyOver(t)
  \/ ChatReset

\* The process ends and is started again with the same configuration:
\* ConversationManager.__init__ loads the history file.
Restart ==
  /\ conversations' = LoadConversations(history_file)
  /\ convOp' = Op("restart", None, EmptyDict, FALSE)
  /\ UNCHANGED <<max_history, disk_writable, history_file, pollVars, deliverVars, cacheVars,
                 schedVars, queryVars, fetchVars, tableVars, lateVars>>

NextConv ==
  \/ DiskRepaired
  \/ AddMessage
  \/ UpdateContext
  \/ ResetConversation
  \/ ResetUnknown
  \/ GetHistory
  \/ GetContext
  \/ Restart

\* ========================================================================
\* UserMapping: the mutations of UserMappingService
\* ========================================================================

\* The ids add_mapping is called with.
DiscordIds == {100, 0}

\* The history of the last call: the method, its arguments, and what it
\* returned ("raised" if it raised).
NoMappingOp == [op |-> "none", github_username |-> None, discord_user_id |-> NoneId, returned |-> None]

MappingOp(op, github_username, discord_user_id, returned) ==
  [op |-> op, github_username |-> github_username, discord_user_id |-> discord_user_id, returned |-> returned]

\* _save_mappings: the mapping file afterwards; the exception of a failed
\* write is logged and not raised.
SaveMappings(file, mp, outcome) ==
  CASE outcome = "ok" -> [state |-> "ok", data |-> mp]
    [] outcome = "failed" -> file
    [] outcome = "corrupt" -> CorruptFile

\* UserMappingService(mapping_file) has loaded the table from its file, and
\* no mutation has been called.
TableLoaded ==
  /\ mapping_file = IF mappings = EmptyDict THEN NoFile ELSE [state |-> "ok", data |-> mappings]
  /\ mappingOp = NoMappingOp

\* An add_mapping that does not touch the table in memory.
WithMappingLost(mp, github_username, discord_user_id) == mp

\* self.mappings[github_username] = str(discord_user_id)
WithMapping(mp, github_username, discord_user_id) ==
  Put(mp, github_username, ToString(discord_user_id))

\* add_mapping(github_username, discord_user_id)
AddMapping ==
  \E github_username \in Users, discord_user_id \in DiscordIds, outcome \in SaveOutcomes(disk_writable) :
    /\ mappings' = WithMapping(mappings, github_username, discord_user_id)
    /\ mapping_file' = SaveMappings(mapping_file, mappings', outcome)
    /\ mappingOp' = MappingOp("add_mapping", github_username, discord_user_id, "True")
    /\ UNCHANGED <<REVIEW_RECIPIENT_MODE, SPECIFIC_DISCORD_USER_ID, FALLBACK_CHANNEL_ID,
                   dRunVars, pollVars, cacheVars, convVars, schedVars, queryVars,
                   fetchVars, lateVars>>

\* remove_mapping(github_username) of a user name in the table
RemoveMapping ==
  \E github_username \in DOMAIN mappings, outcome \in SaveOutcomes(disk_writable) :
    /\ mappings' = Without(mappings, github_username)
    /\ mapping_file' = SaveMappings(mapping_file, mappings', outcome)
    /\ mappingOp' = MappingOp("remove_mapping", github_username, NoneId, "True")
    /\ UNCHANGED <<REVIEW_RECIPIENT_MODE, SPECIFIC_DISCORD_USER_ID, FALLBACK_CHANNEL_ID,
                   dRunVars, pollVars, cacheVars, convVars, schedVars, queryVars,
                   fetchVars, lateVars>>

\* remove_mapping(github_username) of a user name that is not in the
\* table: nothing is done and False is returned
RemoveUnknownMapping ==
  \E github_username \in Users \ DOMAIN mappings :
    /\ mappingOp' = MappingOp("remove_mapping", github_username, NoneId, "False")
    /\ UNCHANGED <<mappings, mapping_file, REVIEW_RECIPIENT_MODE, SPECIFIC_DISCORD_USER_ID,
                   FALLBACK_CHANNEL_ID, dRunVars, pollVars, cacheVars, convVars, schedVars,
                   queryVars, fetchVars, lateVars>>

\* No call has been made on the conversation manager.
ConvUntouched ==
  /\ conversations = EmptyDict
  /\ history_file = NoFile
  /\ convOp = NoOp

\* The calls that change a store kept on disk: the three mutating methods
\* of the conversation manager and the two of the mapping service, and
\* the repair of the disk. The two stores share no state but the disk: a
\* behaviour makes its calls on one of them and leaves the other as it was
\* loaded.
NextPersist ==
  \/ DiskRepaired
  \/ TableLoaded /\ AddMessage
  \/ TableLoaded /\ UpdateContext
  \/ TableLoaded /\ ResetConversation
  \/ ConvUntouched /\ AddMapping
  \/ ConvUntouched /\ RemoveMapping
  \/ ConvUntouched /\ RemoveUnknownMapping

\* ========================================================================
\* RecurringScheduler: ReportScheduler over the APScheduler job table
\* ========================================================================

\* The hours REPORT_HOURS is drawn from (its default is 8,20).
ReportHourChoices == {8, 20}

\* The values of REPORT_HOURS: lists of at most MaxHours hours, in any
\* order, with or without repetitions.
HourLists == UNION {[1..n -> ReportHourChoices] : n \in 0..MaxHours}

\* An id that does not depend on the hour.
JobIdConstant(hour) == "report"

\* id=f'report_{hour}'
JobId(hour) == "report_" \o ToString(hour)

\* An insertion that keeps the job of the same id and adds a second one.
AddJobNoReplace(table, id, hour) == Append(table, [id |-> id, hour |-> hour])

\* scheduler.add_job(report_func, trigger=CronTrigger(hour=hour, minute=0,
\* timezone=self.timezone), id=..., replace_existing=True): the job takes
\* the place of the job with the same id, if there is one.
AddJob(table, id, hour) ==
  IF \E i \in 1..Len(table) : table[i].id = id
  THEN [i \in 1..Len(table) |-> IF table[i].id = id THEN [id |-> id, hour |-> hour] ELSE table[i]]
  ELSE Append(table, [id |-> id, hour |-> hour])

\* The loop of schedule_reports over the hours, from the i-th on.
RECURSIVE ScheduleFrom(_, _, _)
ScheduleFrom(table, hrs, i) ==
  IF i > Len(hrs) THEN table
  ELSE ScheduleFrom(AddJob(table, JobId(hrs[i]), hrs[i]), hrs, i + 1)

\* The jobs of the table whose trigger (hour=h, minute=0, every day) is due
\* when the local time reaches h:00, in the order of the table.
RECURSIVE DueJobs(_, _)
DueJobs(table, h) ==
  IF table = <<>> THEN <<>>
  ELSE (IF Head(table).hour = h THEN <<Head(table)>> ELSE <<>>) \o DueJobs(Tail(table), h)

\* A stop that clears the flag and leaves the scheduler running.
AfterStopKeepsRunning(running, state) == state

\* A start that shuts down the scheduler it finds running.
AfterStartToggles(running, state) == IF ~running THEN "running" ELSE "stopped"

\* stop(): self.scheduler.shutdown() if is_running.
AfterStop(running, state) == IF running THEN "stopped" ELSE state

\* start(): self.scheduler.start() if not is_running.
AfterStart(running, state) == IF ~running THEN "running" ELSE state

\* A scheduler that drops a job whose callback raised.
AfterCallbackErrorUnschedules(table, id) ==
  SelectSeq(table, LAMBDA j : j.id # id)

\* The job table after the callback of a job raised: the failure is logged
\* and the table is as it was.
AfterCallbackError(table, id) == table

\* The callbacks the scheduler starts when the local time reaches h:00: one
\* for each due job if it is running, none if it is not.
Fired(state, table, h) == IF state = "running" THEN DueJobs(table, h) ELSE <<>>

Ids(js) == {js[i].id : i \in 1..Len(js)}

\* What start() and stop() can change: the flag, the scheduler's state, its
\* job table and the callbacks under way.
Scheduler == [is_running |-> is_running, scheduler_state |-> scheduler_state, jobs |-> jobs, inflight |-> inflight]

\* The step is not a call of start() or of stop().
NoCall == [op |-> "none", before |-> None]

\* The step is the call op, made on the scheduler as it is now.
Call(op) == [op |-> op, before |-> Scheduler]

\* ReportScheduler(TIMEZONE): no job, not running.
SchedInit ==
  /\ REPORT_HOURS \in HourLists
  /\ is_running = FALSE
  /\ scheduler_state = "stopped"
  /\ jobs = <<>>
  /\ localHour = 0
  /\ inflight = {}
  /\ lastDue = <<>>
  /\ lastFired = <<>>
  /\ failedJobs = {}
  /\ scheduled = FALSE
  /\ stopCalled = FALSE
  /\ scheduleCalls = 0
  /\ schedCall = NoCall

\* The scheduler as the other specifications hold it.
SchedAtRest ==
  /\ SchedInit
  /\ REPORT_HOURS = <<8, 20>>

\* schedule_reports(send_scheduled_reports, REPORT_HOURS), called by
\* on_ready, at every (re)connection.
ScheduleReports ==
  /\ jobs' = ScheduleFrom(jobs, REPORT_HOURS, 1)
  /\ scheduled' = TRUE
  /\ scheduleCalls' = Inc(scheduleCalls)
  /\ schedCall' = NoCall
  /\ UNCHANGED <<REPORT_HOURS, is_running, scheduler_state, localHour, inflight, lastDue, lastFired, failedJobs, stopCalled>>
  /\ UNCHANGED <<pollVars, deliverVars, cacheVars, convVars, queryVars, fetchVars, tableVars, lateVars>>

\* start()
Start ==
  /\ scheduler_state' = AfterStart(is_running, scheduler_state)
  /\ is_running' = TRUE
  /\ schedCall' = Call("start")
  /\ UNCHANGED <<REPORT_HOURS, jobs, localHour, inflight, lastDue, lastFired, failedJobs, scheduled, stopCalled, scheduleCalls>>
  /\ UNCHANGED <<pollVars, deliverVars, cacheVars, convVars, queryVars, fetchVars, tableVars, lateVars>>

\* stop()
Stop ==
  /\ scheduler_state' = AfterStop(is_running, scheduler_state)
  /\ is_running' = FALSE
  /\ stopCalled' = (stopCalled \/ is_running)
  /\ schedCall' = Call("stop")
  /\ UNCHANGED <<REPORT_HOURS, jobs, localHour, inflight, lastDue, lastFired, failedJobs, scheduled, scheduleCalls>>
  /\ UNCHANGED <<pollVars, deliverVars, cacheVars, convVars, queryVars, fetchVars, tableVars, lateVars>>

\* The local time in the scheduler's timezone reaches the next full hour;
\* the callbacks of the firing before have ended by then. The scheduler
\* starts the callbacks of the due jobs.
HourTick ==
  /\ inflight = {}
  /\ localHour' = (localHour + 1) % HoursPerDay
  /\ lastDue' = DueJobs(jobs, localHour')
  /\ lastFired' = Fired(scheduler_state, jobs, localHour')
  /\ inflight' = Ids(lastFired')
  /\ schedCall' = NoCall
  /\ UNCHANGED <<REPORT_HOURS, is_running, scheduler_state, jobs, failedJobs, scheduled, stopCalled, scheduleCalls>>
  /\ UNCHANGED <<pollVars, deliverVars, cacheVars, convVars, queryVars, fetchVars, tableVars, lateVars>>

\* send_scheduled_reports returns.
CallbackReturn ==
  \E id \in inflight :
    /\ inflight' = inflight \ {id}
    /\ schedCall' = NoCall
    /\ UNCHANGED <<REPORT_HOURS, is_running, scheduler_state, jobs, localHour, lastDue, lastFired, failedJobs, scheduled, stopCalled, scheduleCalls>>
    /\ UNCHANGED <<pollVars, deliverVars, cacheVars, convVars, queryVars, fetchVars, tableVars, lateVars>>

\* send_scheduled_reports raises: int() of the configured channel id, or
\* the channel.send of the error embed in its exception handler.
CallbackFail ==
  \E id \in inflight :
    /\ inflight' = inflight \ {id}
    /\ failedJobs' = failedJobs \cup {id}
    /\ jobs' = AfterCallbackError(jobs, id)
    /\ schedCall' = NoCall
    /\ UNCHANGED <<REPORT_HOURS, is_running, scheduler_state, localHour, lastDue, lastFired, scheduled, stopCalled, scheduleCalls>>
    /\ UNCHANGED <<pollVars, deliverVars, cacheVars, convVars, queryVars, fetchVars, tableVars, lateVars>>

NextSched ==
  \/ ScheduleReports
  \/ Start
  \/ Stop
  \/ HourTick
  \/ CallbackReturn
  \/ CallbackFail

vars == <<pollVars, deliverVars, cacheVars, restVars>>

InitPoll ==
  PollInit /\ DeliverAtRest /\ CacheAtRest /\ ConvAtRest /\ SchedAtRest /\ QueryAtRest /\ FetchAtRest /\ TableLoaded /\ LoopAtRest /\ RouteAtRest /\ ReadAtRest /\ ReportAtRest /\ ChatAtRest

\* The poller, with the delivery pipeline at rest.
SpecPoll == InitPoll /\ [][NextPoll]_vars

InitDeliver ==
  PollAtRest /\ DeliverInit /\ CacheAtRest /\ ConvAtRest /\ SchedAtRest /\ QueryAtRest /\ FetchAtRest /\ TableLoaded /\ LoopAtRest /\ RouteAtRest /\ ReadAtRest /\ ReportAtRest /\ ChatAtRest

\* The delivery pipeline, with the poller at rest.
SpecDeliver == InitDeliver /\ [][NextDeliver]_vars

InitCache ==
  /\ PollInit
  /\ repos_to_watch = <<"r1">>
  /\ DeliverAtRest
  /\ CacheInit
  /\ ConvAtRest
  /\ SchedAtRest
  /\ QueryAtRest
  /\ FetchAtRest /\ TableLoaded /\ LoopAtRest /\ RouteAtRest /\ ReadAtRest /\ ReportAtRest /\ ChatAtRest

\* The cache of the query service, with or without a GitHub client.
SpecCache == InitCache /\ [][NextCache]_vars

InitConv ==
  PollAtRest /\ DeliverAtRest /\ CacheAtRest /\ ConvInit /\ SchedAtRest /\ QueryAtRest /\ FetchAtRest /\ TableLoaded /\ LoopAtRest /\ RouteAtRest /\ ReadAtRest /\ ReportAtRest /\ ChatAtRest

\* The conversation store, with the other components at rest.
SpecConv == InitConv /\ [][NextConv]_vars

InitSched ==
  PollAtRest /\ DeliverAtRest /\ CacheAtRest /\ ConvAtRest /\ SchedInit /\ QueryAtRest /\ FetchAtRest /\ TableLoaded /\ LoopAtRest /\ RouteAtRest /\ ReadAtRest /\ ReportAtRest /\ ChatAtRest

\* The report scheduler, with the other components at rest.
SpecSched == InitSched /\ [][NextSched]_vars


InitQuery ==
  /\ PollInit
  /\ ~github
  /\ repos_to_watch = <<>>
  /\ DeliverAtRest
  /\ CacheInit
  /\ ConvAtRest
  /\ SchedAtRest
  /\ QueryAtRest
  /\ FetchAtRest /\ TableLoaded /\ LoopAtRest /\ RouteAtRest /\ ReadAtRest /\ ReportAtRest /\ ChatAtRest

\* The query router over the backend's resource types, each question
\* answered by one call, without a GitHub client.
SpecQuery == InitQuery /\ [][NextQuery]_vars

InitRoute ==
  /\ PollInit
  /\ ~github
  /\ repos_to_watch = <<>>
  /\ DeliverAtRest
  /\ CacheAtRest
  /\ ConvAtRest
  /\ SchedAtRest
  /\ QueryAtRest
  /\ FetchAtRest /\ TableLoaded /\ LoopAtRest /\ RouteAtRest /\ ReadAtRest /\ ReportAtRest /\ ChatAtRest

\* The query router with every keyword test of a question recorded.
SpecRoute == InitRoute /\ [][NextRoute]_vars

InitRead ==
  PollAtRest /\ DeliverAtRest /\ CacheAtRest /\ ConvAtRest /\ SchedAtRest /\ QueryAtRest /\ FetchAtRest /\ TableLoaded /\ LoopAtRest /\ RouteAtRest /\ ReadAtRest /\ ReportAtRest /\ ChatAtRest

\* The read endpoints of APIService answered with JSON bodies of every
\* structure.
SpecRead == InitRead /\ [][NextRead]_vars

InitReport ==
  PollAtRest /\ DeliverAtRest /\ CacheAtRest /\ ConvAtRest /\ SchedAtRest /\ QueryAtRest /\ FetchAtRest /\ TableLoaded /\ LoopAtRest /\ RouteAtRest /\ ReadAtRest /\ ReportAtRest /\ ChatAtRest

\* The firings of the scheduled report, one at a time, and the enable and
\* disable commands between and within them.
SpecReport == InitReport /\ [][NextReport]_vars

InitChat ==
  PollAtRest /\ DeliverAtRest /\ CacheAtRest /\ ConvAtRest /\ SchedAtRest /\ QueryAtRest /\ FetchAtRest /\ TableLoaded /\ LoopAtRest /\ RouteAtRest /\ ReadAtRest /\ ReportAtRest /\ ChatAtRest

\* The message handlers of the direct messages, one task per message, and
\* the reset command, on one conversation store.
SpecChat == InitChat /\ [][NextChat]_vars

\* ------------------------------------------------------------------------
\* Properties of the poller
\* ------------------------------------------------------------------------

\* Whether newly_merged holds an event for <<repo, number>>.
InNewlyMerged(p) ==
  \E i \in 1..Len(newly_merged) :
    newly_merged[i].repo_name = p[1] /\ newly_merged[i].pr_number = p[2]

\* C1: over the life of the poller, whatever the upstream reports in
\* whatever order to whatever number of calls, no <<repo, pr_number>> is
\* emitted more than once.
C1_EmittedAtMostOnce == \A p \in Repos \X PrNumbers : emitCount[p] <= 1

\* C1 witness: a PR emitted by an earlier call (its number is not above the
\* watermark the running call started with) is reported again, merged and
\* inside the window, and has still been emitted once only.
C1_Witness ==
  \E p \in scannedOk :
    emitCount[p] = 1 /\ p[2] <= Get(tickStart, p[1], 0)

\* C4: no step of the poller lowers a repository's watermark or drops it
\* from the map.
C4_WatermarkMonotone ==
  [][\A r \in Repos :
       /\ r \in DOMAIN last_checked => r \in DOMAIN last_checked'
       /\ Get(last_checked', r, 0) >= Get(last_checked, r, 0)]_vars

\* C4 witness: within one call a PR that is merged, inside the window and
\* new to the call was scanned after a higher-numbered one had raised the
\* watermark.
C4_Witness ==
  \E p \in scannedOk :
    /\ Get(tickStart, p[1], 0) < p[2]
    /\ p[2] < Get(last_checked, p[1], 0)

\* C5 (as claimed): when a call returns, every PR it scanned that was merged,
\* inside the window and above the watermark the call started with is among
\* the events it returns.
C5_AllEligibleEmitted ==
  PollAtReturn =>
    \A p \in scannedOk : p[2] > Get(tickStart, p[1], 0) => InNewlyMerged(p)

\* C6 (as claimed): no event of a call has a merge timestamp before or at the
\* call's cutoff.
C6_CutoffExcluded ==
  \A i \in 1..Len(newly_merged) : newly_merged[i].merged_at > cutoff_time

\* C6 (amended): no event of a call has a merge timestamp before the call's
\* cutoff, and a merged PR above the watermark whose merge timestamp equals
\* the cutoff is emitted by the pass that scans it.
C6_NoneBeforeCutoff ==
  /\ \A i \in 1..Len(newly_merged) : newly_merged[i].merged_at >= cutoff_time
  /\ pollPc = "scan" =>
       \A pr \in PullRequests(cutoff_time) :
         LET repo_name == repos_to_watch[repoIdx] IN
         (/\ pr.merged
          /\ pr.merged_at = cutoff_time
          /\ pr.number > Get(last_checked, repo_name, 0))
           => ScanPr(last_checked, newly_merged, repo_name, pr,
                     cutoff_time).newly_merged
                = Append(newly_merged, Event(repo_name, pr))

\* C6 witness: a call has emitted a PR merged exactly at its cutoff.
C6_Witness ==
  \E i \in 1..Len(newly_merged) : newly_merged[i].merged_at = cutoff_time

\* ------------------------------------------------------------------------
\* Properties of the delivery pipeline
\* ------------------------------------------------------------------------

\* The polling loop is through with an event.
PollEventDone == dPath = "poll" /\ dPc = "done"

\* C2 (as claimed): an event the polling loop is through with was delivered
\* exactly once, by the direct message or by the fallback channel.
C2_DeliveredExactlyOnce == PollEventDone => dmSent + fbSent = 1

\* C2 (amended): an event the polling loop is through with was delivered at
\* most once in total, and it was delivered by neither path exactly when
\* its PR data could not be fetched or the fallback routine it needed found
\* no channel configured, found no channel, or failed to send.
C2_DeliveredOnceOrLost ==
  PollEventDone =>
    /\ dmSent + fbSent <= 1
    /\ (dmSent + fbSent = 0) <=>
         \/ pr_data = NoPrData
         \/ fbOutcome \in {"unconfigured", "nochannel", "sendfail"}

\* C2 witness: an event with PR data, whose direct message was refused and
\* whose fallback send failed, ended with neither delivery.
C2_Witness ==
  /\ PollEventDone
  /\ pr_data # NoPrData
  /\ dmFailure = "Forbidden"
  /\ fbOutcome = "sendfail"
  /\ dmSent + fbSent = 0

\* C3: for every event, on both handlers, the direct message is delivered
\* at most once, the fallback send is attempted at most once, and never both
\* a direct message delivered and a fallback send attempted.
C3_NeverBothPaths ==
  /\ dmSendCalls <= 1
  /\ dmSent <= 1
  /\ fbCalls <= 1
  /\ fbSendCalls <= 1
  /\ ~(dmSent >= 1 /\ fbSendCalls >= 1)

\* C3 witness: the user was fetched, the direct message failed with an
\* error other than Forbidden, and the fallback send was attempted, once.
C3_Witness ==
  /\ dPc = "done"
  /\ fetchUserCalls = 1
  /\ dmSendCalls = 1
  /\ dmFailure = "HTTPException"
  /\ fbSendCalls = 1

\* C7: once resolution has yielded no recipient id, the primary path is not
\* entered (no user lookup, no direct message) and the fallback routine has
\* been called exactly once.
C7_UnresolvedGoesToFallback ==
  (resolved /\ recipient_id = NoneId) =>
    /\ fetchUserCalls = 0
    /\ dmSendCalls = 0
    /\ fbCalls = 1

\* C7 witness: in author mode an event whose author has no usable mapping
\* went through the fallback routine.
C7_Witness ==
  /\ PollEventDone
  /\ REVIEW_RECIPIENT_MODE = "author"
  /\ resolved
  /\ recipient_id = NoneId
  /\ fbOutcome = "sent"

\* C8: when the direct message was refused (Forbidden), the fallback routine
\* is given the recipient's mention and the message it sends is headed by
\* it; when the primary path failed otherwise, it is given no mention and
\* the message is headed by "@" and the author's GitHub name instead.
C8_MentionOnlyWhenUnreachable ==
  fbCalls >= 1 =>
    /\ dmFailure = "Forbidden" =>
         /\ user_mention = UserMention(recipient_id)
         /\ fbSent >= 1 => fbContent = UserMention(recipient_id)
    /\ dmFailure \in {"NotFound", "HTTPException"} =>
         /\ user_mention = None
         /\ fbSent >= 1 =>
              /\ fbContent = "@" \o pr_data.author
              /\ fbContent # UserMention(recipient_id)

\* C8 witness: a refused direct message whose fallback message was sent.
C8_Witness ==
  /\ dPc = "done"
  /\ dmFailure = "Forbidden"
  /\ fbSent = 1

\* ------------------------------------------------------------------------
\* Properties of the cache
\* ------------------------------------------------------------------------

\* This step is a _get_cached call for the watched key.
LookupOfWatched ==
  /\ pending # <<>>
  /\ pending' = Tail(pending)
  /\ Head(pending) = watched

\* C9: a lookup that does not call the fetch function returns the stored
\* value of an entry whose age (now - fetched_at) is below cache_ttl; every
\* other lookup returns what the fetch function returned to that call.
C9_NoStaleValue ==
  [][(LookupOfWatched /\ ~seen'.fetched) =>
       /\ watched \in DOMAIN cache
       /\ clock - cache[watched].timestamp < cache_ttl
       /\ seen'.result = cache[watched].data]_vars

\* C9 witness: a lookup was served from the cache at the greatest age at
\* which an entry is still served, cache_ttl - 1.
C9_Witness ==
  /\ seen # NoLookup
  /\ ~seen.fetched
  /\ watched \in DOMAIN cache
  /\ seen.at - cache[watched].timestamp = cache_ttl - 1

\* C10 (as claimed): of two successive lookups of a key less than cache_ttl
\* apart, at most one calls the fetch function, whatever the first returned.
C10_OneFetchWithinTtl ==
  [][(LookupOfWatched /\ seen # NoLookup /\ clock - seen.at < cache_ttl)
       => ~(seen.fetched /\ seen'.fetched)]_vars

\* C10 (amended): of two successive lookups of a key less than cache_ttl
\* apart, at most one calls the fetch function if the first returned a
\* value; if the first returned None (its fetch failed), the second calls
\* the fetch function again; and a lookup that finds an entry stored
\* cache_ttl or longer ago calls the fetch function.
C10_OneFetchUnlessFailed ==
  [][LookupOfWatched =>
       /\ (seen # NoLookup /\ clock - seen.at < cache_ttl
             /\ seen.result # None)
            => ~(seen.fetched /\ seen'.fetched)
       /\ (seen # NoLookup /\ seen.result = None) => seen'.fetched
       /\ (watched \in DOMAIN cache
             /\ clock - cache[watched].timestamp >= cache_ttl)
            => seen'.fetched]_vars

\* C10 witness: a lookup of a key was served from the entry that an earlier
\* lookup of the key, made before and less than cache_ttl ago, had fetched.
C10_Witness ==
  /\ seen # NoLookup
  /\ ~seen.fetched
  /\ watched \in DOMAIN cache
  /\ seen.at > cache[watched].timestamp

\* C11: a lookup that finds an entry of age cache_ttl or more and whose
\* fetch function returns None returns None, not the stored value, and
\* leaves the whole cache, that entry's data and timestamp and the entries
\* of the other keys, as it was.
C11_FailedRefetchIsMiss ==
  [][(/\ LookupOfWatched
      /\ watched \in DOMAIN cache
      /\ clock - cache[watched].timestamp >= cache_ttl
      /\ seen'.fetched
      /\ seen'.fetch_result = None)
       => /\ seen'.result = None
          /\ cache' = cache]_vars

\* C11 witness: the last lookup of a key found an expired entry, its
\* refetch returned None, and an entry of another key is in the cache too.
C11_Witness ==
  /\ seen # NoLookup
  /\ seen.fetched
  /\ seen.fetch_result = None
  /\ seen.result = None
  /\ watched \in DOMAIN cache
  /\ seen.at - cache[watched].timestamp >= cache_ttl
  /\ \E k \in DOMAIN cache : k # watched

\* ------------------------------------------------------------------------
\* Properties of the conversation store
\* ------------------------------------------------------------------------

\* C12 (as claimed): whatever max_history >= 0 is configured, every user's
\* message list has at most 2 * max_history entries after every call.
C12_LengthBounded ==
  \A u \in DOMAIN conversations :
    Len(conversations[u].messages) <= 2 * max_history

\* The number of messages appended for a user since the user's record was
\* created: the content of the newest one.
Appended(convs, user_id) == NextContent(convs, user_id) - 1

\* C13 (as claimed): after n appends for a user the stored history is the
\* last min(n, 2 * max_history) appended messages, oldest first.
C13_LastAppendedKept ==
  \A u \in DOMAIN conversations :
    LET msgs == conversations[u].messages
        n == Appended(conversations, u)
        k == Min(n, 2 * max_history)
    IN /\ Len(msgs) = k
       /\ \A i \in 1..Len(msgs) : msgs[i].content = n - k + i

\* C14 (as claimed): the set of users with a record changes only in an
\* add_message, an update_context or a reset_conversation (or when the
\* process is started again and loads the file), never in a get_history or
\* a get_context.
C14_ReadsCreateNoRecord ==
  [][DOMAIN conversations' # DOMAIN conversations
       => convOp'.op \in {"add_message", "update_context", "reset_conversation", "restart"}]_vars

\* The attribute of ConversationContext a keyword argument is assigned to.
FieldOf(slot) ==
  CASE slot = "project" -> "current_project"
    [] slot = "task" -> "current_task"
    [] slot = "user" -> "current_user"
    [] slot = "topic" -> "topic"

\* Every record but that of user_id is the same before and after the step.
OthersUnchanged(user_id) ==
  \A v \in ConvUsers \ {user_id} :
    /\ v \in DOMAIN conversations' <=> v \in DOMAIN conversations
    /\ v \in DOMAIN conversations => conversations'[v] = conversations[v]

\* C15: update_context(user, kwargs) sets the slots named in kwargs to the
\* given values; every other slot of the user keeps its value (None for a
\* user without a record), the user's messages are unchanged, and so is the
\* record of every other user.
C15_UpdateContextFrame ==
  [][convOp'.op = "update_context" =>
       LET u == convOp'.user_id
           kw == convOp'.kwargs
           known == u \in DOMAIN conversations
       IN /\ u \in DOMAIN conversations'
          /\ \A slot \in Slots :
               conversations'[u].context[FieldOf(slot)] =
                 IF slot \in DOMAIN kw THEN kw[slot]
                 ELSE IF known THEN conversations[u].context[FieldOf(slot)]
                 ELSE None
          /\ conversations'[u].messages =
               (IF known THEN conversations[u].messages ELSE <<>>)
          /\ OthersUnchanged(u)]_vars

\* C15 witness: an update_context that named only the user slot was made
\* for a user who has messages and whose project and topic were set before,
\* while another user has a record with messages.
C15_Witness ==
  /\ convOp.op = "update_context"
  /\ DOMAIN convOp.kwargs = {"user"}
  /\ convOp.user_id \in DOMAIN conversations
  /\ conversations[convOp.user_id].context.current_project = "x"
  /\ conversations[convOp.user_id].context.topic = "x"
  /\ conversations[convOp.user_id].context.current_task = None
  /\ conversations[convOp.user_id].messages # <<>>
  /\ \E v \in DOMAIN conversations :
       v # convOp.user_id /\ conversations[v].messages # <<>>

\* C16: after reset_conversation(user) the user has no record, get_history
\* returns no message and get_context a context with every slot None; the
\* records of the other users are unchanged; and for a user without a record
\* neither the records nor the history file change.
C16_ResetRemovesRecord ==
  [][convOp'.op = "reset_conversation" =>
       LET u == convOp'.user_id
       IN /\ u \notin DOMAIN conversations'
          /\ GetHistoryOf(conversations', u) = <<>>
          /\ GetContextOf(conversations', u).context = NewContext
          /\ OthersUnchanged(u)
          /\ u \notin DOMAIN conversations =>
               /\ conversations' = conversations
               /\ history_file' = history_file]_vars

\* C16 witness: the record of a user was deleted and the file written,
\* while another user keeps a record with messages and a project.
C16_Witness ==
  /\ convOp.op = "reset_conversation"
  /\ convOp.saved
  /\ convOp.user_id \notin DOMAIN conversations
  /\ convOp.user_id \notin DOMAIN history_file.data
  /\ \E v \in DOMAIN conversations :
       /\ conversations[v].messages # <<>>
       /\ conversations[v].context.current_project = "x"

\* C17: when an add_message, an update_context or a reset_conversation of
\* an existing record has returned and its write did not fail, the history
\* file holds the document of the records in memory, of every user, and
\* loading it gives back those records.
C17_PersistedEqualsMemory ==
  convOp.saved =>
    /\ history_file.state = "ok"
    /\ history_file.data = Document(conversations)
    /\ LoadConversations(history_file) = conversations

\* C17 witness: a call wrote the file, and the records of two users, with
\* messages and a context, are in memory.
C17_Witness ==
  /\ convOp.saved
  /\ history_file.state = "ok"
  /\ DOMAIN conversations = ConvUsers
  /\ \A u \in ConvUsers : conversations[u].messages # <<>>
  /\ \E u \in ConvUsers : conversations[u].context.current_user = "x"

\* ------------------------------------------------------------------------
\* Properties of the scheduler
\* ------------------------------------------------------------------------

\* This step takes the local time to the next full hour.
IsHourTick == localHour' # localHour

\* C18: the end of a callback, by return or by exception, leaves the job
\* table and the state of the scheduler as they were; a job whose callback
\* has raised stays in the table; and when the local time reaches its hour
\* again while the scheduler runs, its callback is started again.
C18_FailedJobStaysScheduled ==
  [][/\ (~IsHourTick /\ inflight' # inflight) =>
          /\ jobs' = jobs
          /\ scheduler_state' = scheduler_state
          /\ is_running' = is_running
     /\ failedJobs' \subseteq Ids(jobs')
     /\ (IsHourTick /\ is_running) =>
          \A i \in 1..Len(jobs) :
            (jobs[i].id \in failedJobs /\ jobs[i].hour = localHour')
              => jobs[i].id \in Ids(lastFired')]_vars

\* C18 witness: the callback of a job that raised at an earlier firing has
\* been started again and is under way, with two jobs in the table.
C18_Witness ==
  /\ \E id \in failedJobs : id \in inflight /\ id \in Ids(lastFired)
  /\ Len(jobs) = 2

\* C19: a callback is started only while is_running holds: never before
\* start() has been called, and never after stop() has returned (until
\* start() is called again); a callback under way is not affected.
C19_NoCallbackOutsideRunning ==
  [][(inflight' \ inflight # {} \/ (IsHourTick /\ lastFired' # <<>>))
       => is_running]_vars

\* C19 witness: stop() was called on the running scheduler, and at the last
\* full hour a job was due and no callback was started.
C19_Witness ==
  /\ stopCalled
  /\ ~is_running
  /\ lastDue # <<>>
  /\ lastFired = <<>>

\* C20: when the local time reaches h:00 while the scheduler runs and
\* schedule_reports has registered the hours of REPORT_HOURS, h among
\* them, one callback is started, that of the job of hour h, and none of a
\* job of another hour.
C20_ExactlyTheHoursJobFires ==
  [][(/\ IsHourTick
      /\ is_running
      /\ scheduled
      /\ \E i \in 1..Len(REPORT_HOURS) : REPORT_HOURS[i] = localHour')
       => lastFired' = <<[id |-> JobId(localHour'), hour |-> localHour']>>]_vars

\* C20 witness: with the hours 8 and 20 registered, at 08:00 the callback
\* of the job of hour 8 alone has been started.
C20_Witness ==
  /\ is_running
  /\ localHour = 8
  /\ Ids(jobs) = {"report_8", "report_20"}
  /\ lastFired = <<[id |-> "report_8", hour |-> 8]>>

\* The hours schedule_reports has registered so far.
HoursScheduled ==
  IF scheduled THEN {REPORT_HOURS[i] : i \in 1..Len(REPORT_HOURS)} ELSE {}

\* C21: after any sequence of calls of schedule_reports, the job table
\* holds one job for each distinct hour scheduled so far and no other job:
\* no two jobs of the table have the same id, the job of hour h has the id
\* report_h, and the number of jobs is the number of distinct hours.
C21_OneJobPerHour ==
  /\ \A i, j \in 1..Len(jobs) : jobs[i].id = jobs[j].id => i = j
  /\ \A i \in 1..Len(jobs) : jobs[i].id = JobId(jobs[i].hour)
  /\ {jobs[i].hour : i \in 1..Len(jobs)} = HoursScheduled
  /\ Len(jobs) = Cardinality(HoursScheduled)

\* C21 witness: schedule_reports has been called twice with the hours 8
\* and 20, and the table holds the two jobs.
C21_Witness ==
  /\ scheduleCalls = 2
  /\ REPORT_HOURS = <<8, 20>>
  /\ Len(jobs) = 2
  /\ Ids(jobs) = {"report_8", "report_20"}

\* C22: start() called on a scheduler that is running, and stop() called
\* on a scheduler that is not, leave the flag, the state of the scheduler,
\* the job table and the callbacks under way as the call found them.
C22_GuardedCallsAreNoOps ==
  /\ (schedCall.op = "start" /\ schedCall.before.is_running)
       => Scheduler = schedCall.before
  /\ (schedCall.op = "stop" /\ ~schedCall.before.is_running)
       => Scheduler = schedCall.before

\* C22 witness: start() has just been called on the running scheduler, with
\* two jobs in the table and a callback under way.
C22_Witness ==
  /\ schedCall.op = "start"
  /\ schedCall.before.is_running
  /\ Len(jobs) = 2
  /\ inflight # {}

\* ------------------------------------------------------------------------
\* Properties of the recipient resolution and of the handlers' error paths
\* ------------------------------------------------------------------------

\* The user name the configured mode looks up for the event: the author's,
\* the repository owner's, or none.
LookedUp ==
  IF REVIEW_RECIPIENT_MODE = "author" THEN pr_data.author
  ELSE IF REVIEW_RECIPIENT_MODE = "owner" THEN pr_data.repo_owner
  ELSE None

\* C23 as stated: the mode specific yields the configured id, the modes
\* author and owner yield the id the table holds for the user name looked
\* up, whatever that entry is, and a user name without an entry is
\* unresolved.
C23_ResolutionFollowsStrategy ==
  resolved =>
    /\ REVIEW_RECIPIENT_MODE = "specific"
         => recipient_id = SPECIFIC_DISCORD_USER_ID
    /\ REVIEW_RECIPIENT_MODE \in {"author", "owner"} =>
         IF LookedUp \in DOMAIN mappings
         THEN ToString(recipient_id) = mappings[LookedUp]
         ELSE recipient_id = NoneId

\* C23 amended: the mode specific yields the configured id (none when none
\* is configured); the modes author and owner yield the number the entry
\* of the user name looked up spells, when the entry is a decimal number,
\* and nothing when the user name has no entry (the lookup is
\* case-sensitive) or when its entry is empty or not a decimal number.
C23_ResolutionOfValidEntries ==
  resolved =>
    /\ REVIEW_RECIPIENT_MODE = "specific"
         => recipient_id = SPECIFIC_DISCORD_USER_ID
    /\ REVIEW_RECIPIENT_MODE \in {"author", "owner"} =>
         IF LookedUp \in DOMAIN mappings /\ mappings[LookedUp] \in DOMAIN IntOf
         THEN ToString(recipient_id) = mappings[LookedUp]
         ELSE recipient_id = NoneId
    /\ REVIEW_RECIPIENT_MODE \notin {"specific", "author", "owner"}
         => recipient_id = NoneId

\* C23 witness: under the mode author, with alice mapped to 100 and bob
\* not mapped, the event of author alice and owner bob has been resolved
\* to 100.
C23_Witness ==
  /\ resolved
  /\ REVIEW_RECIPIENT_MODE = "author"
  /\ DOMAIN mappings = {"alice"}
  /\ mappings["alice"] = "100"
  /\ pr_data = [author |-> "alice", repo_owner |-> "bob"]
  /\ recipient_id = 100

\* The handler is past review_code for an event whose data it has fetched,
\* and the review could not be generated.
ReviewFailedForEvent ==
  /\ pr_data # NoPrData
  /\ dPc \notin {"idle", "get_pr_data", "review_code"}
  /\ ai_review = None

\* C24: when the review of an event could not be generated, the security
\* scan is not called for it, and the handler does not end before the
\* recipient has been resolved and the primary path (bot.fetch_user) or the
\* fallback routine has been entered; every embed it hands to user.send or
\* to channel.send carries the placeholder in place of the review.
C24_FailedReviewStillDelivered ==
  ReviewFailedForEvent =>
    /\ scanCalls = 0
    /\ security_notes = None
    /\ embedReview \subseteq {ReviewFailed}
    /\ dPc = "done" =>
         /\ resolved
         /\ fetchUserCalls + fbCalls >= 1
         /\ (dmSendCalls + fbSendCalls >= 1) => embedReview = {ReviewFailed}

\* C24 witness: the review of an event could not be generated, its
\* recipient was resolved, the DM was refused and the fallback channel
\* received the embed with the placeholder.
C24_Witness ==
  /\ ReviewFailedForEvent
  /\ dPc = "done"
  /\ dmFailure = "Forbidden"
  /\ fbSent = 1
  /\ embedReview = {ReviewFailed}

\* C25: when the fallback routine has been called for an event and has
\* ended because no fallback channel is configured or because the channel
\* was not found, the event is lost (no DM and no channel message was sent
\* for it) and an error-severity log entry has been written for the event.
C25_LostIsLoggedAsError ==
  (dPc = "done" /\ fbCalls >= 1 /\ fbOutcome \in {"unconfigured", "nochannel"})
    => /\ dmSent + fbSent = 0
       /\ dLog # {}

\* ------------------------------------------------------------------------
\* Properties of the poller's error paths
\* ------------------------------------------------------------------------

\* The list l begins with the list k.
IsPrefix(k, l) == Len(k) <= Len(l) /\ SubSeq(l, 1, Len(k)) = k

\* C26: a failure while a repository is polled does not end the call.  The
\* step that raises and the except block keep the events collected and the
\* watermarks; the except block takes the loop to the next position of the
\* watch list and no step of a call skips a position, so that the call
\* returns only after every position has been taken up; no step of a call
\* drops an event collected; and a PR scanned that is merged, inside the
\* window and above its repository's watermark is appended to the events,
\* after a failure as before.
C26_FailureDoesNotAbortTick ==
  [][/\ (pollPc' = "except" \/ pollPc = "except") =>
          /\ newly_merged' = newly_merged
          /\ last_checked' = last_checked
          /\ repos_to_watch' = repos_to_watch
     /\ pollPc = "except" =>
          /\ pollPc' = "loop"
          /\ repoIdx' = repoIdx + 1
     /\ (pollPc # "idle" /\ pollPc' # "idle") =>
          /\ repoIdx' \in {repoIdx, repoIdx + 1}
          /\ IsPrefix(newly_merged, newly_merged')
     /\ (pollPc # "idle" /\ pollPc' = "idle") =>
          /\ pollPc = "loop"
          /\ repoIdx = Len(repos_to_watch) + 1
     /\ \A p \in scannedOk' \ scannedOk :
          (pollPc' # "idle" /\ p[2] > Get(last_checked, p[1], 0)) =>
            /\ Len(newly_merged') = Len(newly_merged) + 1
            /\ newly_merged'[Len(newly_merged')].repo_name = p[1]
            /\ newly_merged'[Len(newly_merged')].pr_number = p[2]]_vars

\* C26 witness: in a call over the watch list r1, r2 the poll of r2 has
\* raised after an event of r2 was collected, control is in the except
\* block, and the events of r1 and of r2 collected before are still held.
C26_Witness ==
  /\ pollPc = "except"
  /\ repos_to_watch = <<"r1", "r2">>
  /\ repoIdx = 2
  /\ Len(newly_merged) = 2
  /\ newly_merged[1].repo_name = "r1"
  /\ newly_merged[2].repo_name = "r2"

\* C27: without a GitHub client a call returns at once, and with an empty
\* watch list it goes through a loop of no pass: either way it collects no
\* event, never enters the scan or the except block, and leaves the
\* watermarks and the record of what was emitted as they were.
C27_NothingToPollNoEvents ==
  [][/\ ~github =>
          /\ pollPc' = "idle"
          /\ newly_merged' = <<>>
          /\ last_checked' = last_checked
          /\ emitCount' = emitCount
     /\ repos_to_watch = <<>> =>
          /\ pollPc' \in {"idle", "loop"}
          /\ newly_merged' = <<>>
          /\ last_checked' = last_checked
          /\ emitCount' = emitCount]_vars

\* C27 witness: a call made after the last repository was taken off the
\* watch list is about to return: it has no event, and the watermark an
\* earlier call set is as that call left it.
C27_Witness ==
  /\ PollAtReturn
  /\ repos_to_watch = <<>>
  /\ newly_merged = <<>>
  /\ last_checked # EmptyDict
  /\ last_checked = tickStart

InitFetch ==
  PollAtRest /\ DeliverAtRest /\ CacheAtRest /\ ConvAtRest /\ SchedAtRest /\ QueryAtRest /\ FetchAtRest /\ TableLoaded /\ LoopAtRest /\ RouteAtRest /\ ReadAtRest /\ ReportAtRest /\ ChatAtRest

InitPersist ==
  PollAtRest /\ DeliverAtRest /\ CacheAtRest /\ ConvInit /\ SchedAtRest /\ QueryAtRest /\ FetchAtRest /\ TableLoaded /\ LoopAtRest /\ RouteAtRest /\ ReadAtRest /\ ReportAtRest /\ ChatAtRest

\* The stores kept on disk and the calls that change them, on a disk that
\* can or cannot be written, with the other components at rest.
SpecPersist == InitPersist /\ [][NextPersist]_vars

\* The calls of the backend, with the other components at rest.
SpecFetch == InitFetch /\ [][NextFetch]_vars

\* ------------------------------------------------------------------------
\* Properties of the query router
\* ------------------------------------------------------------------------

\* This step is a call of analyze_question_and_fetch_data that looks the
\* watched key up.
AskOfWatched == clock' = clock /\ pending = <<>> /\ pending' = <<>> /\ lastAsk'.looked

\* The call before this one looked the watched key up less than cache_ttl
\* ago, for a user whose context holds another project.
AskedBeforeByAnother ==
  /\ lastAsk.at >= 0
  /\ lastAsk.looked
  /\ clock - lastAsk.at < cache_ttl
  /\ lastAsk.current_project # lastAsk'.current_project

\* What a call of the router may do with the context: the cache holds
\* entries under the keys of the resource types alone; what a call stores
\* is what the fetch function returned; and the entry of the bundle is the
\* items _get_cached returned, all of them or those of the project in the
\* context.
FilterIsOnBundleOnly ==
  /\ DOMAIN cache' \subseteq Keys
  /\ (lastAsk'.called /\ lastAsk'.got # None) =>
       /\ watched \in DOMAIN cache'
       /\ cache'[watched].data = lastAsk'.got
  /\ ~lastAsk'.called =>
       /\ watched \in DOMAIN cache
       /\ cache'[watched] = cache[watched]
       /\ lastAsk'.got = cache[watched].data
  /\ lastAsk'.entry.present =>
       /\ TruthyData(lastAsk'.got)
       /\ \/ lastAsk'.entry.items = Items(lastAsk'.got)
          \/ /\ lastAsk'.current_project # None
             /\ lastAsk'.entry.items = FilterByProject(lastAsk'.got, lastAsk'.current_project)

\* C28 as stated: the context changes the bundle only, and of two calls by
\* users of different contexts that look a key up less than cache_ttl
\* apart at most one calls the fetch function.
C28_ContextsShareOneFetch ==
  [][AskOfWatched =>
       /\ FilterIsOnBundleOnly
       /\ AskedBeforeByAnother => ~(lastAsk.called /\ lastAsk'.called)]_vars

\* C28 amended: the context changes the bundle only, and of two calls by
\* users of different contexts that look a key up less than cache_ttl
\* apart at most one calls the fetch function if the first got a value,
\* and then the second, if it does not call it, gets the same value; if
\* the first got None (its fetch failed, nothing was stored) the second
\* calls the fetch function again.
C28_ContextsShareSuccessfulFetch ==
  [][AskOfWatched =>
       /\ FilterIsOnBundleOnly
       /\ (AskedBeforeByAnother /\ lastAsk.got # None) =>
            /\ ~(lastAsk.called /\ lastAsk'.called)
            /\ ~lastAsk'.called => lastAsk'.got = lastAsk.got
       /\ (AskedBeforeByAnother /\ lastAsk.got = None) => lastAsk'.called]_vars

\* C28 witness: a user whose context holds the project Beta has asked after
\* a user whose context holds alpha; the call was served from the entry
\* fetched before, the cache still holds the whole payload, and the bundle
\* holds the items of beta alone.
C28_Witness ==
  /\ lastAsk.current_project = "Beta"
  /\ lastAsk.previous_project = "alpha"
  /\ lastAsk.looked
  /\ ~lastAsk.called
  /\ lastAsk.got = "d1"
  /\ cache[watched].data = "d1"
  /\ lastAsk.at > cache[watched].timestamp
  /\ lastAsk.entry = [present |-> TRUE, items |-> <<"beta">>]

\* ------------------------------------------------------------------------
\* Properties of the backend client
\* ------------------------------------------------------------------------

\* The attempts of the call that met what the policy repeats.
RetriedOutcomes == {i \in 1..Len(responses) : IsRetry(responses[i])}

\* C29: a call makes at most total + 1 attempts; an attempt follows only
\* attempts that met a status of the force list or a timeout, so that an
\* error status outside the list is not retried; and a call whose attempts
\* all met such a failure, total + 1 times, has raised to its caller.
C29_RetriesAreBounded ==
  /\ Len(responses) <= total + 1
  /\ retry_total = total - Cardinality(RetriedOutcomes)
  /\ \A i \in 1..(Len(responses) - 1) : IsRetry(responses[i])
  /\ (apiPc \in {"request", "backoff"}) => RetriedOutcomes = 1..Len(responses)
  /\ (apiPc = "request") => Len(responses) <= total
  /\ (Len(responses) > 0 /\ ~IsRetry(responses[Len(responses)])) =>
        apiPc \in {"returned", "raised"}
  /\ (Len(responses) > 0 /\ responses[Len(responses)] # "200"
        /\ ~IsRetry(responses[Len(responses)])) => apiPc = "raised"
  /\ Cardinality(RetriedOutcomes) = total + 1 => apiPc = "raised"

\* C29 witness: a call has met 503, 429, a timeout and 500, one after the
\* other, and has raised after the fourth attempt.
C29_Witness ==
  /\ responses = <<"503", "429", "timeout", "500">>
  /\ retry_total = 0 - 1
  /\ apiPc = "raised"

\* ------------------------------------------------------------------------
\* Properties of the stores kept on disk
\* ------------------------------------------------------------------------

\* This step is a call made while the disk cannot be written.
OnFailingDisk == ~disk_writable /\ ~disk_writable'

\* The field of the context an update_context keyword sets.
SlotField(ctx, slot) ==
  CASE slot = "project" -> ctx.current_project
    [] slot = "task" -> ctx.current_task
    [] slot = "user" -> ctx.current_user
    [] slot = "topic" -> ctx.topic

\* C30: a mutating call of the conversation manager or of the mapping
\* service made while the disk cannot be written returns without raising,
\* and the reads after it see the mutation: get_history ends with the
\* appended message, get_context holds the updated slots, a reset user has
\* no history, get_discord_id returns the added id, and none for a removed
\* user name.
C30_FailedWriteKeepsMutation ==
  [][OnFailingDisk =>
       /\ convOp'.op = "add_message" =>
            /\ ~convOp'.saved
            /\ \E u \in ConvUsers :
                 LET h == GetHistoryOf(conversations', u)
                 IN /\ h # <<>>
                    /\ h[Len(h)].content = NextContent(conversations, u)
                    /\ h[Len(h)].role = RoleOf(NextContent(conversations, u))
                    /\ \A v \in ConvUsers \ {u} :
                         GetHistoryOf(conversations', v) = GetHistoryOf(conversations, v)
       /\ convOp'.op = "update_context" =>
            /\ ~convOp'.saved
            /\ \A slot \in DOMAIN convOp'.kwargs :
                 SlotField(GetContextOf(conversations', convOp'.user_id).context, slot)
                   = convOp'.kwargs[slot]
       /\ convOp'.op = "reset_conversation" =>
            /\ ~convOp'.saved
            /\ convOp'.user_id \notin DOMAIN conversations'
            /\ GetHistoryOf(conversations', convOp'.user_id) = <<>>
       /\ mappingOp'.op = "add_mapping" =>
            /\ mappingOp'.returned = "True"
            /\ mapping_file'.state # "ok" \/ mapping_file' = mapping_file
            /\ GetDiscordId(mappings', mappingOp'.github_username) = mappingOp'.discord_user_id
       /\ (mappingOp'.op = "remove_mapping" /\ mappingOp'.returned = "True") =>
            /\ mappingOp'.github_username \in DOMAIN mappings
            /\ mappingOp'.github_username \notin DOMAIN mappings'
            /\ GetDiscordId(mappings', mappingOp'.github_username) = NoneId]_vars

\* C30 witness: on a disk that cannot be written alice was mapped to 100:
\* the mapping file holds no document, the call returned, and
\* get_discord_id finds the id in memory.
C30_Witness ==
  /\ ~disk_writable
  /\ mapping_file.state # "ok"
  /\ mappingOp = MappingOp("add_mapping", "alice", 100, "True")
  /\ GetDiscordId(mappings, "alice") = 100

\* A token and a watch list of one repository configured.
InitLoop ==
  PollAtRest /\ DeliverAtRest /\ CacheAtRest /\ ConvAtRest /\ SchedAtRest /\ QueryAtRest /\ FetchAtRest /\ TableLoaded /\ LoopAtRest /\ RouteAtRest /\ ReadAtRest /\ ReportAtRest /\ ChatAtRest

\* The polling tasks, the poller called by their ticks, the other
\* components at rest. A sleep comes to its end and a send returns or
\* raises.
SpecLoop ==
  /\ InitLoop
  /\ [][NextLoop]_vars
  /\ \A t \in LoopTasks : WF_vars(SleepOver(t)) /\ WF_vars(EventEnd(t))

\* ------------------------------------------------------------------------
\* The states of an event
\* ------------------------------------------------------------------------

\* The terminal states of the event the polling loop is through with.
Delivered == PollEventDone /\ dmSent >= 1

FallbackDelivered == PollEventDone /\ fbSent >= 1

Lost == PollEventDone /\ dmSent = 0 /\ fbSent = 0

\* The order of the steps of an event on the polling loop: resolution only
\* after the review attempt, a delivery attempt (the user lookup, the
\* direct message, the fallback routine) only after resolution, and not
\* both a direct message and a fallback message delivered.
StepsInOrder ==
  dPath = "poll" =>
    /\ resolved => reviewAttempted
    /\ (fetchUserCalls + dmSendCalls + fbCalls > 0) => resolved
    /\ ~(dmSent >= 1 /\ fbSent >= 1)

\* Once the loop is through with an event nothing of the event changes
\* unless the loop takes the next event up.
TerminalIsFinal ==
  (PollEventDone /\ dPc' = "done") =>
     UNCHANGED <<dmSent, fbSent, fbOutcome, dmFailure, reviewAttempted, resolved, dLog>>

\* C31 as stated: the steps of an event come in order, no event is through
\* without a review attempt, and a terminal state is final.
C31_EveryEventIsReviewed ==
  /\ [](StepsInOrder /\ (PollEventDone => reviewAttempted))
  /\ [][TerminalIsFinal]_vars

\* C31 amended: the steps of an event come in order, an event is through
\* without a review attempt exactly when its PR data could not be fetched,
\* and then it is lost; a terminal state is final.
C31_ReviewedUnlessNoPrData ==
  /\ [](/\ StepsInOrder
        /\ PollEventDone => (reviewAttempted <=> pr_data # NoPrData)
        /\ (PollEventDone /\ ~reviewAttempted) => (Lost /\ ~resolved))
  /\ [][TerminalIsFinal]_vars

\* C31 witness: an event whose review failed was resolved, its direct
\* message failed and the fallback channel took it.
C31_Witness ==
  /\ FallbackDelivered
  /\ reviewAttempted
  /\ ai_review = None
  /\ resolved
  /\ dmSendCalls = 1
  /\ dmSent = 0

\* ------------------------------------------------------------------------
\* Properties of the polling loop
\* ------------------------------------------------------------------------

\* A polling task has ended only with the client closed; at asyncio.sleep
\* the body has been through for every event of the tick's merged_prs,
\* whatever its outcome for the events before.
LoopKeepsGoing ==
  \A t \in LoopTasks :
    /\ loopPc[t] = "ended" => is_closed
    /\ loopPc[t] = "sleep" => outcomes[t].taken = Len(merged_prs[t])
    /\ loopPc[t] \in {"for", "event"} => outcomes[t].taken < Len(merged_prs[t])

\* From asyncio.sleep a task goes to the while test and nowhere else, and
\* from the while test, the client open, into a tick.
LoopStep ==
  \A t \in LoopTasks :
    /\ loopPc[t] = "sleep" => loopPc'[t] \in {"sleep", "top"}
    /\ (loopPc[t] = "top" /\ ~is_closed') => loopPc'[t] \in {"top", "for", "sleep"}

\* C32: a polling task ends only when the client is closed; a failure of
\* the body for one event leaves the later events of the tick to be taken;
\* after a tick, failed or not, the task sleeps, and the sleep over it is
\* back at the while test.
C32_LoopSurvivesFailures ==
  /\ []LoopKeepsGoing
  /\ [][LoopStep]_vars
  /\ \A t \in LoopTasks : (loopPc[t] = "sleep") ~> (loopPc[t] = "top")
  /\ \A t \in LoopTasks : (loopPc[t] = "event") ~> (loopPc[t] \in {"for", "sleep"})

\* C32 witness: a tick returned two events, the body failed for the first
\* and was run for the second, and the task is at asyncio.sleep.
C32_Witness ==
  /\ loopPc[1] = "sleep"
  /\ Len(merged_prs[1]) = 2
  /\ outcomes[1] = [taken |-> 2, first_failed |-> 1]
  /\ ~is_closed

\* C36: with two polling tasks running on one poller, no pull request is
\* taken up more than once, by either.
C36_LoopsTakeEachPrOnce == \A k \in Repos \X PrNumbers : Len(takenBy[k]) <= 1

\* C36 witness: both tasks are suspended in the body of an event, the
\* first with PR 1, the second with PR 2 of the same repository.
C36_Witness ==
  /\ loopPc[1] = "event"
  /\ loopPc[2] = "event"
  /\ takenBy[<<"r1", 1>>] = <<1>>
  /\ takenBy[<<"r1", 2>>] = <<2>>

\* ------------------------------------------------------------------------
\* Properties of the query router's categories
\* ------------------------------------------------------------------------

\* C33 as stated: the call looks up, through the cache, the resource of
\* every category the question matches (the projects for project/status,
\* the tasks for task/deadline and for team/assignment, something for
\* aggregate-stats), and calls the backend for the projects or the tasks
\* only if the question matches a category they belong to.
C33_FetchesExactlyMatchedCategories ==
  lastRoute.asked =>
    /\ lastRoute.q.needs_projects => "projects" \in lastRoute.looked
    /\ lastRoute.q.needs_tasks => "tasks" \in lastRoute.looked
    /\ lastRoute.q.needs_team => "tasks" \in lastRoute.looked
    /\ lastRoute.q.needs_stats => lastRoute.looked # {}
    /\ "projects" \in lastRoute.called => lastRoute.q.needs_projects
    /\ "tasks" \in lastRoute.called =>
         (lastRoute.q.needs_tasks \/ lastRoute.q.needs_team)

\* C38 as stated: with a project in the context and a question that
\* matches the task category, every task of the bundle is of that project.
C38_TasksAreOfContextProject ==
  (lastRoute.asked /\ lastRoute.current_project # None /\ lastRoute.q.needs_tasks) =>
    \A i \in 1..Len(lastRoute.tasks.items) :
      Lower[lastRoute.tasks.items[i]] = Lower[lastRoute.current_project]

\* ------------------------------------------------------------------------
\* Properties of the read endpoints
\* ------------------------------------------------------------------------

\* C35 as stated: a read endpoint answered with a JSON body of another
\* structure than the expected one returns an empty result: it neither
\* raises nor returns the body.
C35_UnexpectedStructureIsEmpty ==
  \A i \in 1..Len(reads) :
    ~Expected(reads[i].endpoint, reads[i].body) =>
      (~reads[i].raised /\ reads[i].returned = "[]")

\* ------------------------------------------------------------------------
\* Properties of the scheduled reports
\* ------------------------------------------------------------------------

\* The active projects whose id was in the enabled set when the firing
\* started.
EnabledActive == {id \in active : id \in enabled_at_start}

C37_WelcomeAtMostOnce == \A u \in ConvUsers : welcomes[u] <= 1

\* In the messages every question is followed at once by the reply that
\* carries its number.
Paired(messages) ==
  \A i \in 1..Len(messages) :
    messages[i].role = "user" =>
      /\ i < Len(messages)
      /\ messages[i + 1].role = "assistant"
      /\ messages[i + 1].content = messages[i].content

\* C39: in the history of every user, in memory and in the history file,
\* each question is immediately followed by its reply.
C39_QuestionThenItsReply ==
  /\ \A u \in DOMAIN conversations : Paired(conversations[u].messages)
  /\ history_file.state = "ok" =>
       \A u \in DOMAIN history_file.data : Paired(history_file.data[u].messages)

\* C39 witness: two questions of u1 are under way at the same time; the
\* one asked second has been answered and stored, the handler of the
\* first is still suspended at its reply.
C39_Witness ==
  /\ chatPc[1] = "reply"
  /\ chatMsg[1].user = "u1"
  /\ chatMsg[1].n = 1
  /\ "u1" \in DOMAIN conversations
  /\ Len(conversations["u1"].messages) = 2
  /\ conversations["u1"].messages[1].role = "user"
  /\ conversations["u1"].messages[1].content = 2
  /\ conversations["u1"].messages[2].role = "assistant"
  /\ conversations["u1"].messages[2].content = 2

\* The handler of task t comes to the end of message.reply(ai_response).
ReplyEnds(t) == chatPc[t] = "reply" /\ chatPc'[t] # "reply"

\* The messages and the context of the user are as before the step.
UserRecordKept(user_id) ==
  /\ GetHistoryOf(conversations', user_id) = GetHistoryOf(conversations, user_id)
  /\ GetContextOf(conversations', user_id).context = GetContextOf(conversations, user_id).context

\* C40 as stated: when the data fetch, the inference call or the send of
\* the reply failed, the handler leaves the user's messages and context
\* as they were.
C40_NothingStoredOnAnyFailure ==
  [][\A t \in ChatTasks :
       (ReplyEnds(t) /\ (chatMsg[t].failed # "none" \/ chatPc'[t] = "error_reply")) =>
         UserRecordKept(chatMsg[t].user)]_vars

\* C40 amended: when the send of the reply raised, the handler leaves the
\* user's messages and context as they were; a failed data fetch or
\* inference call does not keep the reply from being sent, and the
\* question and the reply sent are then stored.
C40_NothingStoredWhenReplyFails ==
  [][\A t \in ChatTasks :
       /\ (ReplyEnds(t) /\ chatPc'[t] = "error_reply") => UserRecordKept(chatMsg[t].user)
       /\ (ReplyEnds(t) /\ chatPc'[t] = "idle") =>
            conversations'[chatMsg[t].user].messages =
              Exchange(conversations, chatMsg[t].user, chatMsg[t].n,
                       max_history)[chatMsg[t].user].messages]_vars

\* C40 witness: the send of the reply to a question of u1 raised, the
\* handler is in its except block, and the history of u1 holds the
\* welcome alone.
C40_Witness ==
  /\ chatPc[1] = "error_reply"
  /\ chatMsg[1].user = "u1"
  /\ chatMsg[1].n = 1
  /\ chatMsg[1].projects
  /\ "u1" \in DOMAIN conversations
  /\ conversations["u1"].messages = <<[role |-> "assistant", content |-> Welcome, timestamp |-> now]>>
  /\ conversations["u1"].context = NewContext

====
